---- MODULE Spec2Model ----
(***************************************************************************)
(* VoxelShift native core: the batch pipelines of layer_pipeline.c and     *)
(* png_recompress.c (worker pools, phased chunks, last-batch readouts) and *)
(* the GPU backend registry of gpu_accel.c.                                *)
(*                                                                         *)
(* Layers, pixels, scanlines and PNG bytes are small integers: what the    *)
(* pipeline does with a buffer (which layer it came from, whether it was   *)
(* decoded, which builder wrote it, where it lands in the output blob) is  *)
(* kept, the bit patterns are not.                                         *)
(***************************************************************************)
EXTENDS Integers, Sequences, FiniteSets, TLC

\* ------------------------------------------------------------------ bounds
NumLayers == 2        \* count: layers (or PNGs) in the batch input
MaxThreads == 2       \* largest thread_count argument; also the CPU count
MaxFaults == 1        \* layers of the input that fail on their own
MaxCalls == 1         \* batch calls in one behaviour

\* ------------------------------------------------------- program constants
ClaimLayers == 4      \* indices per claim, layer / decode / scanline / compress
ClaimRecompress == 1  \* indices per claim, recompress pool
HardCap == 8          \* CUDA mega-batch hard cap
Int32Max == 2147483647

Layers == 0 .. (NumLayers - 1)
Threads == 0 .. (MaxThreads - 1)
Min(a, b) == IF a < b THEN a ELSE b

\* ------------------------------------------------------------ buffer codes
NULLP == 0            \* a NULL buffer pointer
UNINIT == 0 - 1       \* a malloc'ed buffer nobody has written yet
CudaErr == 2          \* a non-zero code of vs_cuda_tensor_last_error_code
LayerIndexBase == 0   \* layer_index_base argument of the batch calls

Faults == {"none", "range", "area", "deflate"}

\* decrypt_and_decode_layer: the pixels depend on the bytes and on the layer
\* index (the cipher key is derived from it).
Decode(data, layer_index) == 16 + 8 * data + layer_index

\* compute_layer_area_stats on decoded (or never written) pixels.
AreaOf(px) == 1000 + px

\* build_png_scanlines: fails on a NULL pixel pointer, else maps the pixels.
BuildScanlinesCpu(px) == 100 + px
ScanlinesCpuOk(px) == px # NULLP

\* A GPU kernel that reports success has written the CPU-equivalent bytes.
GpuKernelOut(px) == BuildScanlinesCpu(px)

\* compress2: the deflate stream of a scanline buffer; its length varies
\* with the content.
Compress(sl) == [k \in 1 .. (1 + (sl % 2)) |-> sl]

\* _build_png_from_idat: signature, IHDR, one IDAT, IEND.
BuildPngFromIdat(idat) == <<9001, 9002>> \o idat \o <<9003>>

\* recompress_png_idat on the PNG stored as input item `data`.
RecompressPng(data) == BuildPngFromIdat(Compress(200 + data))

\* ------------------------------------------------------ gpu_accel.c
\* _detect_metal / _detect_cuda_tensor / _detect_opencl against the runtime
\* libraries the system has (av) and the build flag VOXELSHIFT_DISABLE_CUDA.
DetectMetal(av) == IF 2 \in av THEN 2 ELSE 0
DetectCuda(av, disabled) == IF ~disabled /\ 3 \in av THEN 3 ELSE 0
DetectOpenCL(av) == IF 1 \in av THEN 1 ELSE 0

\* a selection that ignores the preference
SelectBackendAutoOnly(pref, av, disabled) ==
  IF DetectMetal(av) = 2 THEN 2
  ELSE IF DetectCuda(av, disabled) = 3 THEN 3
  ELSE IF DetectOpenCL(av) = 1 THEN 1
  ELSE 0

\* _ensure_backend_detected when g_gpu_backend < 0.
SelectBackend(pref, av, disabled) ==
  IF pref = 2 /\ DetectMetal(av) = 2 THEN 2
  ELSE IF pref = 3 /\ DetectCuda(av, disabled) = 3 THEN 3
  ELSE IF pref = 1 /\ DetectOpenCL(av) = 1 THEN 1
  ELSE IF DetectMetal(av) = 2 THEN 2
  ELSE IF DetectCuda(av, disabled) = 3 THEN 3
  ELSE IF DetectOpenCL(av) # 0 THEN 1
  ELSE 0

\* set_gpu_backend_preference: out-of-range codes become auto.
NormalisePreference(code) == IF code < 0 \/ code > 3 THEN 0 ELSE code

\* ------------------------------------------------------------------ state
VARIABLES
  cudaDisabled,                  \* build flag VOXELSHIFT_DISABLE_CUDA
  avail,                         \* backends whose runtime library resolves
  hostFit,                       \* 8 GiB / per_layer_mem of the job geometry
  g_gpu_enabled, g_gpu_backend, g_gpu_backend_preference,
  prefArg,                       \* last argument of set_gpu_backend_preference
  g_last,                        \* g_last_process_layers_* scalars
  g_last_phased_gpu_batch_ok,
  input,                         \* per item: payload and the stage it fails at
  call,                          \* the batch call in progress / last returned
  pc,                            \* position of the calling thread
  pool,                          \* the worker pool the caller is running
  wk,                            \* worker threads of that pool
  work,                          \* ProcessBatchWork GPU counters
  pixels, slines,                \* phased chunk buffers, per layer
  items, heap,                   \* item_outputs[] and the PNG buffers' fate
  areas,                         \* out_areas[] records
  outs, ret,                     \* output parameters and the return value
  zombies,                       \* workers left running by finished phases
  ghost,                         \* what the environment did in this call
  calls,                         \* batch calls started so far
  reply,                         \* last value a registry query returned
  rle,                           \* one call of decrypt_and_decode_layer
  area,                          \* one call of compute_layer_area_stats
  pngenc,                        \* one call of build_png_scanlines
  ocl,                           \* one call of gpu_opencl_build_scanlines
  zip,                           \* the ZIP writer behind one handle, and its file
  rec,                           \* one call of recompress_png_idat, and the call on its output
  pwork,                         \* one worker pool's cursor, its workers, and what they claimed
  chk,                           \* chunk sizing and the chunk loop of one phased call
  clrt,                          \* g_rt of the OpenCL builder and the threads calling it
  ana,                           \* thread metrics array and the last-batch thread count
  zl,                            \* lazy load of the deflate provider by the recompress workers
  rng,                           \* the offset / length test of one batch item
  scr                            \* one worker's scratch triple over the layers it processes

\* state the batch pipelines never write: the environment and the units
\* the host calls on their own
unitVars == <<reply, rle, area, pngenc, ocl, zip, rec, pwork, chk, clrt, ana, zl, rng, scr>>
exceptReply == <<rle, area, pngenc, ocl, zip, rec, pwork, chk, clrt, ana, zl, rng, scr>>
exceptRle == <<reply, area, pngenc, ocl, zip, rec, pwork, chk, clrt, ana, zl, rng, scr>>
exceptArea == <<reply, rle, pngenc, ocl, zip, rec, pwork, chk, clrt, ana, zl, rng, scr>>
exceptPng == <<reply, rle, area, ocl, zip, rec, pwork, chk, clrt, ana, zl, rng, scr>>
exceptOcl == <<reply, rle, area, pngenc, zip, rec, pwork, chk, clrt, ana, zl, rng, scr>>
exceptZip == <<reply, rle, area, pngenc, ocl, rec, pwork, chk, clrt, ana, zl, rng, scr>>
exceptRec == <<reply, rle, area, pngenc, ocl, zip, pwork, chk, clrt, ana, zl, rng, scr>>
exceptPwork == <<reply, rle, area, pngenc, ocl, zip, rec, chk, clrt, ana, zl, rng, scr>>
exceptChk == <<reply, rle, area, pngenc, ocl, zip, rec, pwork, clrt, ana, zl, rng, scr>>
exceptClrt == <<reply, rle, area, pngenc, ocl, zip, rec, pwork, chk, ana, zl, rng, scr>>
exceptAna == <<reply, rle, area, pngenc, ocl, zip, rec, pwork, chk, clrt, zl, rng, scr>>
exceptZl == <<reply, rle, area, pngenc, ocl, zip, rec, pwork, chk, clrt, ana, rng, scr>>
exceptRng == <<reply, rle, area, pngenc, ocl, zip, rec, pwork, chk, clrt, ana, zl, scr>>
exceptScr == <<reply, rle, area, pngenc, ocl, zip, rec, pwork, chk, clrt, ana, zl, rng>>
envVars == <<cudaDisabled, avail, hostFit, input, unitVars>>
gpuVars == <<g_gpu_enabled, g_gpu_backend, g_gpu_backend_preference, prefArg>>
lastVars == <<g_last, g_last_phased_gpu_batch_ok>>
bufVars == <<pixels, slines, items, heap, areas>>
callVars == <<call, pc, pool, wk, work, outs, ret, zombies, ghost, calls>>
vars == <<envVars, gpuVars, lastVars, bufVars, callVars>>

NoReply == [fn |-> "none", arg |-> 0, val |-> 0]
NoOuts == [blob |-> <<>>, blob_len |-> 0 - 1, offsets |-> <<>>,
           lengths |-> <<>>, areas |-> <<>>]
NoCall == [fn |-> "none", threads |-> 0, use_gpu_batch |-> 0, max_chunk |-> 0,
           start |-> 0, chunk_count |-> 0, chunk_gpu_ok |-> 0,
           any_gpu_batch_ok |-> 0,
           total_gpu_attempts |-> 0, total_gpu_successes |-> 0,
           best_backend |-> 0]
NoPool == [kind |-> "none", base |-> 0, count |-> 0, n |-> 0, next_index |-> 0,
           failed |-> FALSE, t |-> 0, started |-> 0, si |-> 0]
NoWork == [allow_gpu |-> 0, used_gpu |-> 0, gpu_attempts |-> 0,
           gpu_successes |-> 0, gpu_fallbacks |-> 0, last_cuda_error |-> 0]
NoGhost == [kcalls |-> 0, koks |-> 0, boks |-> 0, bfails |-> 0,
            layerFail |-> FALSE, envFail |-> FALSE,
            gbuilt |-> 0, gfell |-> 0, createFail |-> FALSE]
NoWorkers == [t \in Threads |-> [st |-> "none", s |-> 0, e |-> 0]]
NoItems == [i \in Layers |-> <<>>]
NoHeap == [i \in Layers |-> "none"]
NoBufs == [i \in Layers |-> NULLP]
NoAreas == [i \in Layers |-> UNINIT]

\* Inputs: every item carries its own payload; at most MaxFaults of them
\* fail on their own, each at one stage.
Inputs ==
  { f \in [Layers -> [data : 1 .. NumLayers, fault : Faults]] :
      /\ \A i \in Layers : f[i].data = i + 1
      /\ Cardinality({i \in Layers : f[i].fault # "none"}) <= MaxFaults }

\* The environments told apart by the pipelines: no GPU runtime, Metal,
\* OpenCL, the CUDA companion library.
Availabilities == {{}, {1}, {2}, {3}}

Live(w, t) == w[t].st \notin {"none", "done"}
LiveCount(w) == Cardinality({t \in Threads : Live(w, t)})

\* _ensure_backend_detected + gpu_acceleration_backend / _active
\* a registry that probes the libraries on every query
DetectedUncached ==
  SelectBackend(g_gpu_backend_preference, avail, cudaDisabled)

Detected == IF g_gpu_backend >= 0 THEN g_gpu_backend
            ELSE SelectBackend(g_gpu_backend_preference, avail, cudaDisabled)
gpu_acceleration_active == g_gpu_enabled = 1 /\ Detected # 0

\* thread_count > 0 ? thread_count : (g_threads > 0 ? g_threads : cpus), >= 1
ResolveThreads(thread_count, g_threads, cpus) ==
  LET r == IF thread_count > 0 THEN thread_count
           ELSE IF g_threads > 0 THEN g_threads ELSE cpus
  IN IF r < 1 THEN 1 ELSE r

\* ------------------------------------------------------- per-item stages
\* a builder that gives up when the kernel fails
build_scanlines_no_retry(px, allow_gpu, active, backend, kok) ==
  LET gpu == allow_gpu = 1 /\ active
      att == IF gpu /\ backend \in {1, 3} THEN 1 ELSE 0
  IN [ok |-> (att = 1 /\ kok) \/ (att = 0 /\ ScanlinesCpuOk(px)),
      sl |-> BuildScanlinesCpu(px),
      backend_used |-> IF att = 1 /\ kok THEN backend ELSE 0,
      gpu_attempted |-> att, gpu_succeeded |-> IF att = 1 /\ kok THEN 1 ELSE 0]

\* _build_scanlines_auto: the single-layer GPU kernel when acceleration is
\* active on CUDA (3) or OpenCL (1), the CPU builder otherwise and after a
\* kernel failure.  kok: the kernel call reports success.
build_scanlines_auto(px, allow_gpu, active, backend, kok) ==
  LET gpu == allow_gpu = 1 /\ active
      att == IF gpu /\ backend \in {1, 3} THEN 1 ELSE 0
  IN IF gpu /\ backend = 3 /\ kok
       THEN [ok |-> TRUE, sl |-> GpuKernelOut(px), backend_used |-> 3,
             gpu_attempted |-> att, gpu_succeeded |-> 1]
     ELSE IF gpu /\ backend = 1 /\ kok
       THEN [ok |-> TRUE, sl |-> GpuKernelOut(px), backend_used |-> 1,
             gpu_attempted |-> att, gpu_succeeded |-> 1]
     ELSE [ok |-> ScanlinesCpuOk(px), sl |-> BuildScanlinesCpu(px),
           backend_used |-> 0, gpu_attempted |-> att, gpu_succeeded |-> 0]

\* a counter block that forgets the fallbacks
UpdateGpuCountersNoFallback(w, r, err) ==
  IF r.backend_used \in {1, 3} \/ r.gpu_attempted = 1
    THEN [w EXCEPT
            !.used_gpu = IF r.backend_used \in {1, 3} THEN r.backend_used ELSE @,
            !.gpu_attempts = @ + r.gpu_attempted,
            !.gpu_successes = @ + r.gpu_succeeded]
    ELSE w

\* the counter block of _process_one_layer, under work->lock
UpdateGpuCounters(w, r, err) ==
  IF r.backend_used \in {1, 3} \/ r.gpu_attempted = 1
    THEN [w EXCEPT
            !.used_gpu = IF r.backend_used \in {1, 3} THEN r.backend_used ELSE @,
            !.gpu_attempts = @ + r.gpu_attempted,
            !.gpu_successes = @ + r.gpu_succeeded,
            !.gpu_fallbacks =
               IF r.gpu_attempted = 1 /\ r.gpu_succeeded = 0 THEN @ + 1 ELSE @,
            !.last_cuda_error =
               IF r.gpu_attempted = 1 /\ r.gpu_succeeded = 0
                  /\ r.backend_used = 0 /\ err # 0 THEN err ELSE @]
    ELSE w

\* What one item stage leaves behind: the shared state after it, and whether
\* the stage reported failure.
Same == [fail |-> FALSE, items |-> items, heap |-> heap, areas |-> areas,
         pixels |-> pixels, slines |-> slines, work |-> work,
         backend |-> g_gpu_backend, ghost |-> ghost]
FailOf(r) == [r EXCEPT !.fail = TRUE, !.ghost.layerFail = TRUE]
Publish(r, i, png) == [r EXCEPT !.items[i] = png, !.heap[i] = "live"]

\* _process_one_layer: decode, area statistics, scanlines, deflate, PNG.
process_one_layer(i, kok, err) ==
  LET in == input[i]
      px == Decode(in.data, LayerIndexBase + i)
      b == Detected
      active == gpu_acceleration_active
      r == build_scanlines_auto(px, work.allow_gpu, active, b, kok)
      called == work.allow_gpu = 1 /\ active /\ b \in {1, 3}
      g1 == [ghost EXCEPT !.kcalls = @ + (IF called THEN 1 ELSE 0),
                          !.koks = @ + (IF called /\ kok THEN 1 ELSE 0)]
      s1 == [Same EXCEPT !.areas[i] = AreaOf(px), !.backend = b, !.ghost = g1]
      s2 == [s1 EXCEPT !.work = UpdateGpuCounters(work, r, err)]
  IN IF in.fault \in {"range", "area"} THEN FailOf(Same)
     ELSE IF ~r.ok THEN FailOf(s1)
     ELSE IF in.fault = "deflate" THEN FailOf(s2)
     ELSE Publish(s2, i, BuildPngFromIdat(Compress(r.sl)))

\* a chunk that numbers its layers from the base again
ChunkLayerIndexLocal(i) == LayerIndexBase + (i - call.start)

\* w->layer_index_base + i inside a chunk: the chunk is handed
\* layer_index_base + start, and i counts from the chunk's first layer
ChunkLayerIndex(i) == (LayerIndexBase + call.start) + (i - call.start)

\* _decode_one_layer (phase 1): pixels and area record of chunk layer i.
decode_one_layer(i) ==
  LET in == input[i]
      px == Decode(in.data, ChunkLayerIndex(i))
  IN IF in.fault = "range" THEN FailOf(Same)
     ELSE IF in.fault = "area" THEN FailOf([Same EXCEPT !.pixels[i] = px])
     ELSE [Same EXCEPT !.pixels[i] = px, !.areas[i] = AreaOf(px)]

\* _scanline_one_layer (phase 2, CPU pool)
scanline_one_layer(i) ==
  IF ScanlinesCpuOk(pixels[i])
    THEN [Same EXCEPT !.slines[i] = BuildScanlinesCpu(pixels[i])]
    ELSE FailOf(Same)

\* _compress_one_layer (phase 3): deflate and PNG wrap of scanlines[i].
compress_one_layer(i) ==
  IF input[i].fault = "deflate" THEN FailOf(Same)
  ELSE Publish(Same, i, BuildPngFromIdat(Compress(slines[i])))

\* _batch_process_one (recompress_png_batch): re-deflate input PNG i.
batch_process_one(i) ==
  IF input[i].fault # "none" THEN FailOf(Same)
  ELSE Publish(Same, i, RecompressPng(input[i].data))

ProcessItem(kind, i, kok, err) ==
  CASE kind = "layer" -> process_one_layer(i, kok, err)
    [] kind = "decode" -> decode_one_layer(i)
    [] kind = "scanline" -> scanline_one_layer(i)
    [] kind = "compress" -> compress_one_layer(i)
    [] kind = "recompress" -> batch_process_one(i)

\* indices one claim takes from the shared counter
ClaimSize(kind) == IF kind = "recompress" THEN ClaimRecompress ELSE ClaimLayers

\* ------------------------------------------------------------ aggregation
RECURSIVE SumLen(_, _)
SumLen(its, n) == IF n = 0 THEN 0 ELSE SumLen(its, n - 1) + Len(its[n - 1])
RECURSIVE Concat(_, _)
Concat(its, n) == IF n = 0 THEN <<>> ELSE Concat(its, n - 1) \o its[n - 1]

\* the final loop of the batch calls: offsets, lengths, blob, areas
Assemble(its, ars) ==
  [blob |-> Concat(its, NumLayers), blob_len |-> SumLen(its, NumLayers),
   offsets |-> [i \in Layers |-> SumLen(its, i)],
   lengths |-> [i \in Layers |-> Len(its[i])], areas |-> ars]

\* free(item_outputs[i]) for every non-NULL slot
FreeAll(h, its) ==
  [i \in Layers |-> IF its[i] = <<>> THEN h[i]
                    ELSE IF h[i] = "live" THEN "freed" ELSE "double"]

\* ------------------------------------------------------------ worker pool
\* Shared by the five pools (per-layer, decode, scanline, compress,
\* recompress): a mutex-protected next_index / failed pair, n threads.
NewPool(kind, base, count, threads) ==
  [kind |-> kind, base |-> base, count |-> count, n |-> Min(threads, count),
   next_index |-> 0, failed |-> FALSE, t |-> 0, started |-> 0, si |-> 0]

\* The caller starts a pool: the serial loop for one thread (or one item),
\* the create / join loops otherwise.  Workers of the pool before it that
\* are still running are left behind.
StartPool(kind, base, count, threads, left) ==
  /\ pool' = NewPool(kind, base, count, threads)
  /\ wk' = NoWorkers
  /\ zombies' = left
  /\ pc' = IF Min(threads, count) <= 1 THEN "serial" ELSE "create"

Apply(r) ==
  /\ items' = r.items
  /\ heap' = r.heap
  /\ areas' = r.areas
  /\ pixels' = r.pixels
  /\ slines' = r.slines
  /\ work' = r.work
  /\ g_gpu_backend' = r.backend
  /\ ghost' = r.ghost

\* for (t < threads) if (pthread_create(&ts[t], ...) == 0) started++;
\* a failed creation leaves ts[t] unwritten.
CreateThread(ok) ==
  /\ pc = "create"
  /\ pool.t < pool.n
  /\ wk' = IF ok
             THEN [wk EXCEPT ![pool.t].st =
                     IF pool.kind = "layer" THEN "start" ELSE "idle"]
             ELSE wk
  /\ pool' = [pool EXCEPT !.t = IF @ + 1 = pool.n THEN 0 ELSE @ + 1,
                          !.started = IF ok THEN @ + 1 ELSE @]
  /\ pc' = IF pool.t + 1 = pool.n THEN "join" ELSE "create"
  /\ ghost' = IF ok THEN ghost
            ELSE [ghost EXCEPT !.envFail = TRUE, !.createFail = TRUE]
  /\ UNCHANGED <<envVars, gpuVars, lastVars, bufVars, call, work, outs, ret,
                 zombies, calls>>

\* for (t < started) pthread_join(ts[t], NULL);  joining a handle that
\* pthread_create wrote waits for that thread; joining an unwritten one is
\* undefined and may return at any time.
JoinThread ==
  /\ pc = "join"
  /\ pool.t < pool.started
  /\ wk[pool.t].st \in {"none", "done"}
  /\ pool' = [pool EXCEPT !.t = @ + 1]
  /\ UNCHANGED <<envVars, gpuVars, lastVars, bufVars, call, pc, wk, work,
                 outs, ret, zombies, ghost, calls>>

\* _init_process_thread_scratch at the top of _process_batch_worker
WorkerInit(t, ok) ==
  /\ wk[t].st = "start"
  /\ wk' = [wk EXCEPT ![t].st = IF ok THEN "idle" ELSE "done"]
  /\ pool' = [pool EXCEPT !.failed = @ \/ ~ok]
  /\ ghost' = IF ok THEN ghost ELSE [ghost EXCEPT !.envFail = TRUE]
  /\ UNCHANGED <<envVars, gpuVars, lastVars, bufVars, call, pc, work, outs,
                 ret, zombies, calls>>

\* _take_process_range / _take_decode_range / _batch_take_index, under lock
WorkerTake(t) ==
  /\ wk[t].st = "idle"
  /\ IF ~pool.failed /\ pool.next_index < pool.count
       THEN LET e == Min(pool.next_index + ClaimSize(pool.kind), pool.count)
            IN /\ wk' = [wk EXCEPT ![t] = [st |-> "hold",
                                          s |-> pool.next_index, e |-> e]]
               /\ pool' = [pool EXCEPT !.next_index = e]
       ELSE /\ wk' = [wk EXCEPT ![t].st = "done"]
            /\ pool' = pool
  /\ UNCHANGED <<envVars, gpuVars, lastVars, bufVars, call, pc, work, outs,
                 ret, zombies, ghost, calls>>

\* one iteration of the worker's for loop over its claimed range
WorkerProcess(t, kok, err) ==
  /\ wk[t].st = "hold"
  /\ LET r == ProcessItem(pool.kind, pool.base + wk[t].s, kok, err)
     IN /\ Apply(r)
        /\ pool' = [pool EXCEPT !.failed = @ \/ r.fail]
  /\ wk' = IF wk[t].s + 1 = wk[t].e
             THEN [wk EXCEPT ![t].st = "idle"]
             ELSE [wk EXCEPT ![t].s = @ + 1]
  /\ UNCHANGED <<envVars, g_gpu_enabled, g_gpu_backend_preference, prefArg,
                 lastVars,
                 call, pc, outs, ret, zombies, calls>>

\* the single-threaded loop: for (i < count) { one item; if (failed) break; }
SerialStep(kok, err) ==
  /\ pc = "serial"
  /\ pool.si < pool.count
  /\ ~pool.failed
  /\ LET r == ProcessItem(pool.kind, pool.base + pool.si, kok, err)
     IN /\ Apply(r)
        /\ pool' = [pool EXCEPT !.failed = r.fail, !.si = @ + 1]
  /\ UNCHANGED <<envVars, g_gpu_enabled, g_gpu_backend_preference, prefArg,
                 lastVars,
                 call, pc, wk, outs, ret, zombies, calls>>

\* the caller is past the join loop / the serial loop
PoolEnded ==
  \/ pc = "join" /\ pool.t = pool.started
  \/ pc = "serial" /\ (pool.si = pool.count \/ pool.failed)

\* started == 0, or the failed flag as the caller reads it
PoolFailed == pool.failed \/ (pc = "join" /\ pool.started = 0)

\* ------------------------------------------------- process_layers_batch
NotReturned == 0 - 1
NoLast == [backend |-> 0, gpu_attempts |-> 0, gpu_successes |-> 0,
           gpu_fallbacks |-> 0, cuda_error |-> 0, thread_count |-> 0]

\* the per-call resets shared by the three batch entry points
BeginCall ==
  /\ pc \in {"idle", "returned"}
  /\ calls < MaxCalls
  /\ calls' = calls + 1
  /\ items' = NoItems
  /\ heap' = NoHeap
  /\ areas' = NoAreas
  /\ outs' = NoOuts

\* process_layers_batch up to the thread loops: the work record, the thread
\* count (clamped to count), allow_gpu = 1, and for one thread the scratch
\* buffers of the serial loop.
CallLayer(thread_count, scratch_ok) ==
  LET threads == Min(ResolveThreads(thread_count, 0, MaxThreads), NumLayers)
  IN /\ BeginCall
     /\ call' = [NoCall EXCEPT !.fn = "layer", !.threads = threads]
     /\ work' = [NoWork EXCEPT !.allow_gpu = 1]
     /\ pixels' = NoBufs
     /\ slines' = NoBufs
     /\ IF threads = 1 /\ ~scratch_ok
          THEN /\ pc' = "returned"
               /\ ret' = 0
               /\ pool' = NoPool
               /\ wk' = NoWorkers
               /\ zombies' = 0
               /\ ghost' = [NoGhost EXCEPT !.envFail = TRUE]
          ELSE /\ StartPool("layer", 0, NumLayers, threads, 0)
               /\ ret' = NotReturned
               /\ ghost' = NoGhost
     /\ UNCHANGED <<envVars, gpuVars, lastVars>>

\* the tail shared by the batch calls: every slot must hold a PNG, the total
\* must fit int32, the blob is allocated, filled in index order, and the
\* outputs are stored.
Aggregate(blob_ok) ==
  IF \E i \in Layers : items[i] = <<>>
    THEN /\ ret' = 0
         /\ outs' = outs
         /\ ghost' = ghost
  ELSE IF SumLen(items, NumLayers) <= 0 \/ SumLen(items, NumLayers) > Int32Max
            \/ ~blob_ok
    THEN /\ ret' = 0
         /\ outs' = outs
         /\ ghost' = IF blob_ok THEN ghost ELSE [ghost EXCEPT !.envFail = TRUE]
  ELSE /\ ret' = 1
       /\ outs' = Assemble(items, areas)
       /\ ghost' = ghost

\* process_layers_batch after the join: work.failed (or started == 0)
\* releases and returns 0 before the readouts are stored; otherwise the
\* readouts are stored and the outputs aggregated.
FinishLayer(blob_ok) ==
  /\ PoolEnded
  /\ pool.kind = "layer"
  /\ heap' = FreeAll(heap, items)
  /\ pc' = "returned"
  /\ IF PoolFailed
       THEN /\ ret' = 0
            /\ UNCHANGED <<outs, ghost, g_last>>
       ELSE /\ g_last' = [backend |-> work.used_gpu,
                          gpu_attempts |-> work.gpu_attempts,
                          gpu_successes |-> work.gpu_successes,
                          gpu_fallbacks |-> work.gpu_fallbacks,
                          cuda_error |-> work.last_cuda_error,
                          thread_count |-> call.threads]
            /\ Aggregate(blob_ok)
  /\ UNCHANGED <<envVars, gpuVars, g_last_phased_gpu_batch_ok, pixels, slines,
                 items, areas, call, pool, wk, work, zombies, calls>>

\* -------------------------------------------------- recompress_png_batch
\* g_threads: the value set_recompress_batch_threads left (0: CPU count).
CallRecompress(g_threads) ==
  LET requested == Min(ResolveThreads(0, g_threads, MaxThreads), NumLayers)
  IN /\ BeginCall
     /\ call' = [NoCall EXCEPT !.fn = "recompress", !.threads = requested]
     /\ work' = NoWork
     /\ pixels' = NoBufs
     /\ slines' = NoBufs
     /\ StartPool("recompress", 0, NumLayers, requested, 0)
     /\ ret' = NotReturned
     /\ ghost' = NoGhost
     /\ UNCHANGED <<envVars, gpuVars, lastVars>>

FinishRecompress(blob_ok) ==
  /\ PoolEnded
  /\ pool.kind = "recompress"
  /\ heap' = FreeAll(heap, items)
  /\ pc' = "returned"
  /\ IF PoolFailed
       THEN /\ ret' = 0
            /\ UNCHANGED <<outs, ghost>>
       ELSE Aggregate(blob_ok)
  /\ UNCHANGED <<envVars, gpuVars, lastVars, pixels, slines, items, areas,
                 call, pool, wk, work, zombies, calls>>

\* -------------------------------------------- process_layers_batch_phased
\* a cap that passes the library's answer on
CudaCapAsAnswered(max_layers) == max_layers

\* if (max_layers <= 0 || max_layers > hard_cap) max_layers = hard_cap;
CudaCap(max_layers) ==
  IF max_layers <= 0 \/ max_layers > HardCap THEN HardCap ELSE max_layers

\* max_chunk: count, clamped by the host budget, by the VRAM budget when
\* use_gpu_batch, by the CUDA concurrency cap when CUDA is active, and >= 1.
MaxChunk(count, fit, use_gpu_batch, vram_fit, cuda_active, max_layers) ==
  LET c1 == IF fit < count THEN fit ELSE count
      c2 == IF use_gpu_batch # 0 /\ vram_fit > 0 /\ vram_fit < c1
              THEN vram_fit ELSE c1
      ml == CudaCap(max_layers)
      c3 == IF use_gpu_batch # 0 /\ cuda_active /\ ml < c2 THEN ml ELSE c2
  IN IF c3 < 1 THEN 1 ELSE c3

InChunk(i, start, n) == i >= start /\ i < start + n
ChunkBufs(bufs, start, n, v) ==
  [i \in Layers |-> IF InChunk(i, start, n) THEN v ELSE bufs[i]]

\* what the CUDA companion library answers when it is not loaded
VramFits == IF 3 \in avail THEN {0, 1} ELSE {0}
MaxLayerAnswers == IF 3 \in avail THEN {0, 1} ELSE {0}

\* _phased_chunk up to phase 1: fresh pixel and scanline buffers for the
\* chunk, then the decode pool.
StartChunk(px, sl, start, n, threads, left) ==
  /\ pixels' = ChunkBufs(px, start, n, UNINIT)
  /\ slines' = ChunkBufs(sl, start, n, UNINIT)
  /\ StartPool("decode", start, n, threads, left)

\* process_layers_batch_phased up to the first chunk: readouts reset (all
\* but the thread count), thread count resolved, chunk size computed.
CallPhased(thread_count, use_gpu_batch, vram_fit, max_layers) ==
  LET threads == ResolveThreads(thread_count, 0, MaxThreads)
      b == IF use_gpu_batch # 0 THEN Detected ELSE g_gpu_backend
      cuda_active == use_gpu_batch # 0 /\ g_gpu_enabled = 1 /\ b = 3
      mc == MaxChunk(NumLayers, hostFit, use_gpu_batch, vram_fit,
                     cuda_active, max_layers)
  IN /\ BeginCall
     /\ g_last_phased_gpu_batch_ok' = 0
     /\ g_last' = [NoLast EXCEPT !.thread_count = g_last.thread_count]
     /\ g_gpu_backend' = b
     /\ call' = [NoCall EXCEPT !.fn = "phased", !.threads = threads,
                               !.use_gpu_batch = use_gpu_batch,
                               !.max_chunk = mc, !.start = 0,
                               !.chunk_count = Min(NumLayers, mc)]
     /\ work' = NoWork
     /\ ghost' = NoGhost
     /\ ret' = NotReturned
     /\ StartChunk(NoBufs, NoBufs, 0, Min(NumLayers, mc), threads, 0)
     /\ UNCHANGED <<envVars, g_gpu_enabled, g_gpu_backend_preference, prefArg>>

\* the per-layer GPU loop of phase 2 with its per-layer CPU fallback; stops
\* at the first layer neither builder accepts.  A kernel handed a NULL pixel
\* pointer reports failure.
RECURSIVE PerLayerGpu(_, _, _, _, _)
PerLayerGpu(px, sl, i, end, kres) ==
  IF i = end THEN [all_ok |-> TRUE, sl |-> sl]
  ELSE IF px[i] # NULLP /\ kres[i]
    THEN PerLayerGpu(px, [sl EXCEPT ![i] = GpuKernelOut(px[i])], i + 1, end, kres)
  ELSE IF ScanlinesCpuOk(px[i])
    THEN PerLayerGpu(px, [sl EXCEPT ![i] = BuildScanlinesCpu(px[i])], i + 1, end, kres)
  ELSE [all_ok |-> FALSE, sl |-> sl]

\* the layers of the chunk whose scanlines the single-layer kernel built
KernelBuilt(px, start, end, kres) ==
  Cardinality({i \in start .. (end - 1) : px[i] # NULLP /\ kres[i]})

\* Phase 2 of _phased_chunk before the CPU pool.  bok: the mega-batch kernel
\* reports success; kres: the single-layer kernel's verdict per layer.
Phase2Gpu(start, n, use_gpu_batch, bok, kres, max_layers, err) ==
  LET b == IF use_gpu_batch # 0 THEN Detected ELSE g_gpu_backend
      gpu == use_gpu_batch # 0 /\ g_gpu_enabled = 1 /\ b # 0
      ml == CudaCap(max_layers)
      mega == gpu /\ b = 3 /\ n <= ml
      px1 == IF mega THEN ChunkBufs(pixels, start, n, NULLP) ELSE pixels
      mega_ok == mega /\ bok
      sl1 == IF mega_ok
               THEN [i \in Layers |-> IF InChunk(i, start, n)
                                        THEN GpuKernelOut(pixels[i])
                                        ELSE slines[i]]
               ELSE slines
      per_layer == gpu /\ ~mega_ok /\ b \in {1, 3}
      loop == IF per_layer THEN PerLayerGpu(px1, sl1, start, start + n, kres)
              ELSE [all_ok |-> FALSE, sl |-> sl1]
  IN [gpu_batch_ok |-> mega_ok \/ (per_layer /\ loop.all_ok),
      pixels |-> px1, slines |-> loop.sl, backend |-> b,
      cuda_error |-> IF mega /\ ~bok THEN err ELSE g_last.cuda_error,
      mega |-> mega, mega_ok |-> mega_ok,
      attempted |-> IF mega \/ per_layer THEN n ELSE 0,
      built |-> IF mega_ok THEN n
                ELSE IF per_layer THEN KernelBuilt(px1, start, start + n, kres)
                ELSE 0]

\* chunk_fail and the caller's clean-up: chunk buffers and every PNG slot
\* released, 0 returned, no output stored.
PhasedFail ==
  /\ pixels' = ChunkBufs(pixels, call.start, call.chunk_count, NULLP)
  /\ slines' = ChunkBufs(slines, call.start, call.chunk_count, NULLP)
  /\ heap' = FreeAll(heap, items)
  /\ ret' = 0
  /\ pc' = "returned"
  /\ UNCHANGED <<envVars, gpuVars, lastVars, items, areas, call, pool, wk,
                 work, outs, zombies, ghost, calls>>

\* phase 1 is over: _run_decode_phase returned
DecodeDone ==
  /\ PoolEnded
  /\ pool.kind = "decode"
  /\ IF PoolFailed
       THEN PhasedFail
       ELSE /\ pc' = "scan"
            /\ UNCHANGED <<envVars, gpuVars, lastVars, bufVars, call, pool, wk,
                           work, outs, ret, zombies, ghost, calls>>

\* the decoded pixels are released, phase 3 starts
StartCompress(px, chunk_gpu_ok) ==
  /\ pixels' = ChunkBufs(px, call.start, call.chunk_count, NULLP)
  /\ call' = [call EXCEPT !.chunk_gpu_ok = chunk_gpu_ok]
  /\ StartPool("compress", call.start, call.chunk_count, call.threads,
               zombies + LiveCount(wk))

\* phase 2: the GPU attempts; when they built every scanline buffer the
\* chunk goes to phase 3, otherwise the CPU scanline pool starts.
ScanlinePhase(bok, kres, max_layers, err) ==
  /\ pc = "scan"
  /\ LET r == Phase2Gpu(call.start, call.chunk_count, call.use_gpu_batch,
                        bok, kres, max_layers, err)
     IN /\ g_gpu_backend' = r.backend
        /\ g_last' = [g_last EXCEPT !.cuda_error = r.cuda_error]
        /\ ghost' = [ghost EXCEPT
                       !.boks = @ + (IF r.mega_ok THEN 1 ELSE 0),
                       !.bfails = @ + (IF r.mega /\ ~r.mega_ok THEN 1 ELSE 0),
                       !.gbuilt = @ + r.built,
                       !.gfell = @ + (r.attempted - r.built)]
        /\ slines' = r.slines
        /\ IF r.gpu_batch_ok
             THEN StartCompress(r.pixels, 1)
             ELSE /\ pixels' = r.pixels
                  /\ call' = call
                  /\ StartPool("scanline", call.start, call.chunk_count,
                               call.threads, zombies + LiveCount(wk))
  /\ UNCHANGED <<envVars, g_gpu_enabled, g_gpu_backend_preference, prefArg,
                 g_last_phased_gpu_batch_ok, items, heap, areas, work, outs,
                 ret, calls>>

\* the CPU scanline pool is over: _run_scanline_phase_cpu returned
ScanlineDone ==
  /\ PoolEnded
  /\ pool.kind = "scanline"
  /\ IF PoolFailed
       THEN PhasedFail
       ELSE /\ StartCompress(pixels, 0)
            /\ UNCHANGED <<envVars, gpuVars, lastVars, slines, items, heap,
                           areas, work, outs, ret, ghost, calls>>

\* phase 3 is over: the chunk's totals are taken, then the next chunk
\* starts or the readouts are stored and the outputs aggregated.
CompressDone(blob_ok) ==
  /\ PoolEnded
  /\ pool.kind = "compress"
  /\ IF PoolFailed
       THEN PhasedFail
       ELSE LET ok == call.chunk_gpu_ok = 1
                any == IF ok THEN 1 ELSE call.any_gpu_batch_ok
                att == call.total_gpu_attempts
                         + (IF ok THEN call.chunk_count ELSE 0)
                suc == call.total_gpu_successes
                         + (IF ok THEN call.chunk_count ELSE 0)
                best == IF ok THEN 3 ELSE call.best_backend
                next == call.start + call.max_chunk
                sl == ChunkBufs(slines, call.start, call.chunk_count, NULLP)
                c1 == [call EXCEPT !.any_gpu_batch_ok = any,
                                   !.total_gpu_attempts = att,
                                   !.total_gpu_successes = suc,
                                   !.best_backend = best]
            IN IF next < NumLayers
                 THEN /\ call' = [c1 EXCEPT
                                    !.start = next,
                                    !.chunk_count =
                                       Min(NumLayers - next, call.max_chunk),
                                    !.chunk_gpu_ok = 0]
                      /\ StartChunk(pixels, sl, next,
                                    Min(NumLayers - next, call.max_chunk),
                                    call.threads, zombies + LiveCount(wk))
                      /\ UNCHANGED <<envVars, gpuVars, lastVars, items, heap,
                                     areas, work, outs, ret, ghost, calls>>
                 ELSE /\ call' = c1
                      /\ slines' = sl
                      /\ g_last_phased_gpu_batch_ok' = any
                      /\ g_last' = IF any = 1
                                     THEN [g_last EXCEPT
                                             !.backend = best,
                                             !.gpu_attempts = att,
                                             !.gpu_successes = suc,
                                             !.gpu_fallbacks = 0]
                                     ELSE g_last
                      /\ Aggregate(blob_ok)
                      /\ heap' = FreeAll(heap, items)
                      /\ pc' = "returned"
                      /\ UNCHANGED <<envVars, gpuVars, pixels, items, areas,
                                     pool, wk, work, zombies, calls>>

\* ------------------------------------------------------ registry calls
PrefCodes == (0 - 1) .. 4

\* set_gpu_backend_preference
SetPreference(code) ==
  /\ pc \in {"idle", "returned"}
  /\ g_gpu_backend_preference' = NormalisePreference(code)
  /\ g_gpu_backend' = 0 - 1
  /\ prefArg' = code
  /\ UNCHANGED <<envVars, g_gpu_enabled, lastVars, bufVars, call, pc, pool, wk,
                 work, outs, ret, zombies, ghost, calls>>

\* set_gpu_acceleration_enabled
SetEnabled(enabled) ==
  /\ pc \in {"idle", "returned"}
  /\ g_gpu_enabled' = IF enabled # 0 THEN 1 ELSE 0
  /\ UNCHANGED <<envVars, g_gpu_backend, g_gpu_backend_preference, prefArg,
                 lastVars, bufVars, call, pc, pool, wk, work, outs, ret,
                 zombies, ghost, calls>>

\* gpu_acceleration_backend / gpu_acceleration_active called by the host
QueryBackend ==
  /\ pc \in {"idle", "returned"}
  /\ g_gpu_backend' = Detected
  /\ UNCHANGED <<envVars, g_gpu_enabled, g_gpu_backend_preference, prefArg,
                 lastVars, bufVars, callVars>>

\* ------------------------------------------------------ rle_decode.c
\* uint32_t values are kept as four bytes, least significant first.
Zero32 == <<0, 0, 0, 0>>
InitMul == <<172, 205, 131, 45>>       \* 0x2d83cdac
InitAdd == <<35, 52, 168, 216>>        \* 0xd8a83423
KeyMul == <<205, 48, 21, 30>>          \* 0x1e1530cd
KeyAdd == <<205, 71, 61, 236>>         \* 0xec3d47cd

\* (uint32_t)x of an int32_t x
U32(x) ==
  LET y == IF x >= 0 THEN x ELSE (x + Int32Max) + 1
      top == ((y \div 16777216) % 256) + (IF x >= 0 THEN 0 ELSE 128)
  IN <<y % 256, (y \div 256) % 256, (y \div 65536) % 256, top>>

\* a + b and a * b of uint32_t
Add32(a, b) ==
  LET c1 == a[1] + b[1]
      c2 == a[2] + b[2] + (c1 \div 256)
      c3 == a[3] + b[3] + (c2 \div 256)
      c4 == a[4] + b[4] + (c3 \div 256)
  IN <<c1 % 256, c2 % 256, c3 % 256, c4 % 256>>
Mul32(a, b) ==
  LET c1 == a[1] * b[1]
      c2 == a[1] * b[2] + a[2] * b[1] + (c1 \div 256)
      c3 == a[1] * b[3] + a[2] * b[2] + a[3] * b[1] + (c2 \div 256)
      c4 == a[1] * b[4] + a[2] * b[3] + a[3] * b[2] + a[4] * b[1]
            + (c3 \div 256)
  IN <<c1 % 256, c2 % 256, c3 % 256, c4 % 256>>

\* a ^ b on n-bit values
RECURSIVE XorBits(_, _, _)
XorBits(a, b, n) ==
  IF n = 0 THEN 0
  ELSE (((a % 2) + (b % 2)) % 2) + 2 * XorBits(a \div 2, b \div 2, n - 1)
Xor8(a, b) == XorBits(a, b, 8)

NoRle == [st |-> "off", data |-> <<>>, data_len |-> 0, layer_index |-> 0,
          encryption_key |-> 0, width |-> 0, height |-> 0, pixel_count |-> 0,
          n |-> 0, pixel |-> 0, key |-> Zero32, init |-> Zero32, kbi |-> 0,
          ok |-> 1, value |-> 0, out |-> <<>>, plain |-> <<>>, iter |-> 0,
          ret |-> 0 - 1]

\* a reader that never advances the key
ReadByteFixedKey(r) ==
  IF r.n >= r.data_len THEN [r EXCEPT !.ok = 0, !.value = 0]
  ELSE LET raw == r.data[r.n + 1]
           v == IF r.encryption_key = 0 THEN raw
                ELSE Xor8(raw, r.key[r.kbi + 1])
       IN [r EXCEPT !.n = @ + 1, !.value = v, !.plain = Append(@, v),
                    !.kbi = IF r.encryption_key = 0 THEN @ ELSE (@ + 1) % 4]

\* read_byte: r.value is the byte returned, r.plain the bytes returned so far
ReadByte(r) ==
  IF r.n >= r.data_len THEN [r EXCEPT !.ok = 0, !.value = 0]
  ELSE LET raw == r.data[r.n + 1]
       IN IF r.encryption_key = 0
          THEN [r EXCEPT !.n = @ + 1, !.value = raw, !.plain = Append(@, raw)]
          ELSE LET v == Xor8(raw, r.key[r.kbi + 1])
                   kb == r.kbi + 1
                   turn == kb % 4 = 0
               IN [r EXCEPT !.n = @ + 1, !.value = v, !.plain = Append(@, v),
                            !.kbi = IF turn THEN 0 ELSE kb,
                            !.key = IF turn THEN Add32(@, r.init) ELSE @]

\* a parser that takes every code byte as the head of a one-byte run
ParseTokenRunOnly(r0) ==
  LET r1 == ReadByte(r0)
      r2 == ReadByte(r1)
  IN [r |-> r2, code |-> r1.value % 128, stride |-> r2.value % 128]

\* one token of the while loop: the code with its MSB cleared, the stride,
\* and the reader afterwards (r.ok = 0: the loop breaks)
ParseToken(r0) ==
  LET r1 == ReadByte(r0)
      code == r1.value
      r2 == ReadByte(r1)
      slen == r2.value
      r3 == ReadByte(r2)
      r4 == ReadByte(r3)
      r5 == ReadByte(r4)
      c7 == code % 128
  IN IF code < 128 THEN [r |-> r1, code |-> code, stride |-> 1]
     ELSE IF r2.ok = 0 THEN [r |-> r2, code |-> c7, stride |-> 1]
     ELSE IF slen < 128 THEN [r |-> r2, code |-> c7, stride |-> slen]
     ELSE IF slen < 192
       THEN [r |-> r3, code |-> c7, stride |-> ((slen % 64) * 256) + r3.value]
     ELSE IF slen < 224
       THEN [r |-> r4, code |-> c7,
             stride |-> ((slen % 32) * 65536) + (r3.value * 256) + r4.value]
     ELSE IF slen < 240
       THEN [r |-> r5, code |-> c7,
             stride |-> ((slen % 16) * 16777216) + (r3.value * 65536)
                        + (r4.value * 256) + r5.value]
     ELSE [r |-> r2, code |-> c7, stride |-> 1]

\* decrypt_and_decode_layer, entry: argument check, zero fill, key set-up.
\* The buffer is kept as the runs written after the zero fill.
DecodeEnter ==
  /\ rle.st = "call"
  /\ rle' =
       IF rle.data_len <= 0 \/ rle.pixel_count <= 0
       THEN [rle EXCEPT !.st = "ret", !.ret = 0]
       ELSE LET init == IF rle.encryption_key = 0 THEN Zero32
                        ELSE Add32(Mul32(U32(rle.encryption_key), InitMul),
                                   InitAdd)
                key == IF rle.encryption_key = 0 THEN Zero32
                       ELSE Mul32(Add32(Mul32(U32(rle.layer_index), KeyMul),
                                        KeyAdd), init)
            IN [rle EXCEPT !.st = "run", !.init = init, !.key = key,
                           !.kbi = 0, !.n = 0, !.pixel = 0, !.ok = 1,
                           !.out = <<>>]
  /\ UNCHANGED <<cudaDisabled, avail, hostFit, input, exceptRle, gpuVars,
                 lastVars, bufVars, callVars>>

LoopCond(r) == r.n < r.data_len /\ r.pixel < r.pixel_count /\ r.ok = 1

\* one iteration of the while loop. pixel + stride is an int addition: when
\* it overflows the build either wraps (wrap) or has compared the wide sum.
DecodeStep(wrap) ==
  /\ rle.st = "run"
  /\ LoopCond(rle)
  /\ LET t == ParseToken(rle)
         pv == IF t.code = 0 THEN 0 ELSE ((2 * t.code) + 1) % 256
         over == rle.pixel >= 0 /\ t.stride > Int32Max - rle.pixel
         sum == IF ~over THEN rle.pixel + t.stride
                ELSE IF wrap
                  THEN ((rle.pixel - Int32Max) - 1)
                       + ((t.stride - Int32Max) - 1)
                ELSE Int32Max
         clipped == over /\ ~wrap
         end == IF clipped \/ sum > rle.pixel_count THEN rle.pixel_count
                ELSE sum
     IN /\ wrap => (t.r.ok = 1 /\ over)
        /\ rle' =
             IF t.r.ok = 0 THEN [t.r EXCEPT !.iter = @ + 1]
             ELSE [t.r EXCEPT
                     !.iter = @ + 1,
                     !.pixel = end,
                     !.out = IF pv # 0 /\ rle.pixel < end
                             THEN Append(@, [from |-> rle.pixel,
                                             to |-> end - 1, val |-> pv])
                             ELSE @]
  /\ UNCHANGED <<cudaDisabled, avail, hostFit, input, exceptRle, gpuVars,
                 lastVars, bufVars, callVars>>

\* the loop has ended: return 1
DecodeReturn ==
  /\ rle.st = "run"
  /\ ~LoopCond(rle)
  /\ rle' = [rle EXCEPT !.st = "ret", !.ret = 1]
  /\ UNCHANGED <<cudaDisabled, avail, hostFit, input, exceptRle, gpuVars,
                 lastVars, bufVars, callVars>>

\* ------------------------------------------------------ area_stats.c
\* The pixel buffer is kept as `solid`, the indices of its non-zero pixels;
\* areas are counted in pixels (x_pixel_size_mm = y_pixel_size_mm = 1).
StackCap == 4096      \* first capacity of the flood-fill stack
Dx == <<0 - 1, 0, 1, 0 - 1, 1, 0 - 1, 0, 1>>
Dy == <<0 - 1, 0 - 1, 0 - 1, 0, 0, 1, 1, 1>>

NoResult == [total_solid_area |-> 0, largest_area |-> 0, smallest_area |-> 0,
             min_x |-> 0, min_y |-> 0, max_x |-> 0, max_y |-> 0,
             area_count |-> 0]
NoArea == [st |-> "off", width |-> 0, height |-> 0, solid |-> {},
           y |-> 0, x |-> 0, stack |-> <<>>, stack_cap |-> 0, visited |-> {},
           island_pixels |-> 0, cells |-> {}, islands |-> <<>>,
           min_x |-> 0, min_y |-> 0, max_x |-> 0, max_y |-> 0,
           total_area |-> 0, largest_area |-> 0, smallest_area |-> 0,
           area_count |-> 0, ret |-> 0 - 1, result |-> NoResult]

AreaCall(w, h, solid) ==
  [NoArea EXCEPT !.st = "call", !.width = w, !.height = h, !.solid = solid]

\* (y << 16) | (x & 0xFFFF) and its two halves
Pack(x, y) == (y * 65536) + (x % 65536)
PackedX(p) == p % 65536
PackedY(p) == (p \div 65536) % 65536

\* a bounding box that only ever moves its minimum corner
BoxAddMinOnly(a, x, y) ==
  [a EXCEPT !.min_x = IF x < @ THEN x ELSE @,
            !.min_y = IF y < @ THEN y ELSE @]

\* if (x < min_x) min_x = x; ... for a pixel joining the current island
BoxAdd(a, x, y) ==
  [a EXCEPT !.min_x = IF x < @ THEN x ELSE @,
            !.max_x = IF x > @ THEN x ELSE @,
            !.min_y = IF y < @ THEN y ELSE @,
            !.max_y = IF y > @ THEN y ELSE @]

\* mark, push and count pixel (x, y) of the island being filled
Visit(a, x, y) ==
  LET idx == (y * a.width) + x
  IN BoxAdd([a EXCEPT !.visited = @ \cup {idx},
                      !.cells = @ \cup {idx},
                      !.stack = Append(@, Pack(x, y)),
                      !.island_pixels = @ + 1], x, y)

\* the for loop over the eight neighbours of (cx, cy), from neighbour i on
RECURSIVE Neighbours(_, _, _, _)
Neighbours(a, cx, cy, i) ==
  IF i > 8 THEN a
  ELSE LET nx == cx + Dx[i]
           ny == cy + Dy[i]
           n_idx == (ny * a.width) + nx
           skip == \/ nx < 0 \/ nx >= a.width \/ ny < 0 \/ ny >= a.height
                   \/ n_idx \notin a.solid
                   \/ n_idx \in a.visited
       IN Neighbours(IF skip THEN a ELSE Visit(a, nx, ny), cx, cy, i + 1)

\* compute_layer_area_stats, entry: argument check and calloc of the bitset
AreaEnter(ok) ==
  /\ area.st = "call"
  /\ area' =
       IF area.width <= 0 \/ area.height <= 0 \/ ~ok
       THEN [area EXCEPT !.st = "ret", !.ret = 0]
       ELSE [area EXCEPT !.st = "scan", !.y = 0, !.x = 0,
                         !.min_x = area.width, !.min_y = area.height,
                         !.max_x = 0, !.max_y = 0]
  /\ UNCHANGED <<cudaDisabled, avail, hostFit, input, exceptArea, gpuVars,
                 lastVars, bufVars, callVars>>

\* the row-major scan up to the next unvisited solid pixel, which becomes
\* the root of an island (the stack gets its first capacity here: realloc
\* may fail), or to the end of the image, where the record is written
AreaScan(ok) ==
  /\ area.st = "scan"
  /\ LET cur == (area.y * area.width) + area.x
         roots == {i \in area.solid \ area.visited :
                     i >= cur /\ i < area.width * area.height}
         root == CHOOSE i \in roots : \A j \in roots : i <= j
         x == root % area.width
         y == root \div area.width
     IN area' =
          IF roots = {}
          THEN [area EXCEPT
                  !.st = "ret", !.ret = 1,
                  !.result =
                    IF area.area_count = 0 THEN NoResult
                    ELSE [total_solid_area |-> area.total_area,
                          largest_area |-> area.largest_area,
                          smallest_area |-> area.smallest_area,
                          min_x |-> area.min_x, min_y |-> area.min_y,
                          max_x |-> area.max_x, max_y |-> area.max_y,
                          area_count |-> area.area_count]]
          ELSE IF area.stack_cap = 0 /\ ~ok
          THEN [area EXCEPT !.st = "ret", !.ret = 0]
          ELSE Visit([area EXCEPT !.st = "fill", !.y = y, !.x = x,
                                  !.stack_cap = StackCap,
                                  !.island_pixels = 0, !.cells = {}], x, y)
  /\ (~ok) => (area.stack_cap = 0
               /\ \E i \in area.solid \ area.visited :
                    i < area.width * area.height)
  /\ UNCHANGED <<cudaDisabled, avail, hostFit, input, exceptArea, gpuVars,
                 lastVars, bufVars, callVars>>

\* one turn of while (stack_len > 0): pop a pixel, visit its neighbours
\* (fills whose stack stays within its first capacity)
AreaPop ==
  /\ area.st = "fill"
  /\ area.stack # <<>>
  /\ Len(area.stack) < StackCap - 8
  /\ LET p == area.stack[Len(area.stack)]
         a == [area EXCEPT !.stack = SubSeq(@, 1, Len(@) - 1)]
     IN area' = Neighbours(a, PackedX(p), PackedY(p), 1)
  /\ UNCHANGED <<cudaDisabled, avail, hostFit, input, exceptArea, gpuVars,
                 lastVars, bufVars, callVars>>

\* the island is complete: areas and count, then the scan goes on at x + 1
AreaIslandDone ==
  /\ area.st = "fill"
  /\ area.stack = <<>>
  /\ LET island_area == area.island_pixels
     IN area' =
          [area EXCEPT
             !.st = "scan",
             !.x = @ + 1,
             !.total_area = @ + island_area,
             !.largest_area = IF island_area > @ THEN island_area ELSE @,
             !.smallest_area = IF area.area_count = 0 \/ island_area < @
                               THEN island_area ELSE @,
             !.area_count = @ + 1,
             !.islands = Append(@, [pixels |-> area.island_pixels,
                                    cells |-> area.cells])]
  /\ UNCHANGED <<cudaDisabled, avail, hostFit, input, exceptArea, gpuVars,
                 lastVars, bufVars, callVars>>

\* ------------------------------------------------------ png_encode.c
\* Buffers are functions on C indices; UNINIT is a byte nobody has written.
NoPng == [st |-> "off", grey |-> <<>>, src_width |-> 0, height |-> 0,
          out_width |-> 0, channels |-> 0, out_len |-> 0, y |-> 0,
          todo |-> <<>>, out |-> <<>>, raw |-> <<>>, ret |-> 0 - 1]

\* a padding that puts the larger half on the left
PadLeftCeil(required_subpixels, src_width) ==
  LET pad_total == required_subpixels - src_width
  IN IF pad_total > 0 THEN (pad_total + 1) \div 2 ELSE 0

\* pad_left = pad_total > 0 ? pad_total / 2 : 0
PadLeft(required_subpixels, src_width) ==
  LET pad_total == required_subpixels - src_width
  IN IF pad_total > 0 THEN pad_total \div 2 ELSE 0

\* required_subpixels of the greyscale path
GreySubpixels(out_width) == out_width * 2

\* (si >= 0 && si < src_width) ? grey_pixels[row_offset + si] : 0
Sub(p, row_offset, si) ==
  IF si >= 0 /\ si < p.src_width THEN p.grey[row_offset + si] ELSE 0

\* data byte c (from 0) of mapped row y
MappedByte(p, y, c) ==
  LET row_offset == y * p.src_width
  IN IF p.channels = 3
     THEN LET pad_left == PadLeft(p.out_width * 3, p.src_width)
              si == (3 * (c \div 3)) - pad_left
          IN Sub(p, row_offset, si + (c % 3))
     ELSE LET pad_left == PadLeft(GreySubpixels(p.out_width), p.src_width)
              si == (2 * c) - pad_left
          IN (Sub(p, row_offset, si) + Sub(p, row_offset, si + 1)) \div 2

BytesPerRow(p) == p.out_width * p.channels
ScanlineSize(p) == 1 + BytesPerRow(p)
RequiredLen(p) == ScanlineSize(p) * p.height

\* rows in the order the Up filter visits them, top to bottom
RECURSIVE FilterOrderTopDown(_)
FilterOrderTopDown(height) ==
  IF height <= 1 THEN <<>>
  ELSE Append(FilterOrderTopDown(height - 1), height - 1)

\* for (y = height - 1; y >= 1; y--)
RECURSIVE FilterOrder(_)
FilterOrder(height) ==
  IF height <= 1 THEN <<>>
  ELSE <<height - 1>> \o FilterOrder(height - 1)

\* build_png_scanlines, entry: the argument checks
PngEnter ==
  /\ pngenc.st = "call"
  /\ pngenc' =
       IF \/ pngenc.src_width <= 0 \/ pngenc.height <= 0 \/ pngenc.out_width <= 0
          \/ pngenc.channels \notin {1, 3}
       THEN [pngenc EXCEPT !.st = "ret", !.ret = 0]
       ELSE IF pngenc.out_len < RequiredLen(pngenc)
       THEN [pngenc EXCEPT !.st = "ret", !.ret = 0]
       ELSE [pngenc EXCEPT !.st = "map", !.y = 0]
  /\ UNCHANGED <<cudaDisabled, avail, hostFit, input, exceptPng, gpuVars,
                 lastVars, bufVars, callVars>>

\* one row of the mapping loop: the placeholder filter byte and the data
PngMapRow ==
  /\ pngenc.st = "map"
  /\ pngenc.y < pngenc.height
  /\ LET dst == pngenc.y * ScanlineSize(pngenc)
     IN pngenc' =
          [pngenc EXCEPT
             !.y = @ + 1,
             !.out = [j \in DOMAIN pngenc.out |->
                        IF j = dst THEN 0
                        ELSE IF j > dst /\ j <= dst + BytesPerRow(pngenc)
                        THEN MappedByte(pngenc, pngenc.y, (j - dst) - 1)
                        ELSE pngenc.out[j]]]
  /\ UNCHANGED <<cudaDisabled, avail, hostFit, input, exceptPng, gpuVars,
                 lastVars, bufVars, callVars>>

\* the mapping loop has ended; raw remembers the mapped image
PngMapDone ==
  /\ pngenc.st = "map"
  /\ pngenc.y >= pngenc.height
  /\ pngenc' = [pngenc EXCEPT !.st = "filter", !.raw = pngenc.out,
                        !.todo = FilterOrder(pngenc.height)]
  /\ UNCHANGED <<cudaDisabled, avail, hostFit, input, exceptPng, gpuVars,
                 lastVars, bufVars, callVars>>

\* one row of the Up filter, in place
PngFilterRow ==
  /\ pngenc.st = "filter"
  /\ pngenc.todo # <<>>
  /\ LET y == Head(pngenc.todo)
         cur_start == y * ScanlineSize(pngenc)
         prev_start == (y - 1) * ScanlineSize(pngenc)
     IN pngenc' =
          [pngenc EXCEPT
             !.todo = Tail(@),
             !.y = y,
             !.out = [j \in DOMAIN pngenc.out |->
                        IF j = cur_start THEN 2
                        ELSE IF j > cur_start /\ j <= cur_start + BytesPerRow(pngenc)
                        THEN ((pngenc.out[j] - pngenc.out[prev_start + (j - cur_start)])
                              + 256) % 256
                        ELSE pngenc.out[j]]]
  /\ UNCHANGED <<cudaDisabled, avail, hostFit, input, exceptPng, gpuVars,
                 lastVars, bufVars, callVars>>

\* out_scanlines[0] = 2; return 1
PngFinish ==
  /\ pngenc.st = "filter"
  /\ pngenc.todo = <<>>
  /\ pngenc' = [pngenc EXCEPT !.st = "ret", !.ret = 1,
                        !.out = [@ EXCEPT ![0] = 2]]
  /\ UNCHANGED <<cudaDisabled, avail, hostFit, input, exceptPng, gpuVars,
                 lastVars, bufVars, callVars>>

\* ----------------------------------------------- gpu_opencl_scanline.c
\* One call of gpu_opencl_build_scanlines; body is the malloc'd kernel
\* read-back buffer.
NoOcl == [st |-> "off", grey |-> <<>>, src_width |-> 0, height |-> 0,
          out_width |-> 0, channels |-> 0, out_len |-> 0, y |-> 0,
          todo |-> <<>>, body |-> <<>>, out |-> <<>>, ret |-> 0 - 1]

\* required_subpixels = out_width * channels; pad_left from it
OclPadLeft(p) == PadLeft(p.out_width * p.channels, p.src_width)

\* map_pixels: byte c (from 0) of row y of dst
KernelByte(p, y, c, pad_left) ==
  LET src_row == y * p.src_width
  IN IF p.channels = 3
     THEN LET si == (3 * (c \div 3)) - pad_left
          IN Sub(p, src_row, si + (c % 3))
     ELSE LET si == (2 * c) - pad_left
          IN (Sub(p, src_row, si) + Sub(p, src_row, si + 1)) \div 2

\* entry: argument checks, length checks, _ensure_runtime_init, malloc
OclEnter(ready, body_ok) ==
  /\ ocl.st = "call"
  /\ LET body_len == BytesPerRow(ocl) * ocl.height
     IN ocl' =
          IF \/ ocl.src_width <= 0 \/ ocl.height <= 0 \/ ocl.out_width <= 0
             \/ ocl.channels \notin {1, 3}
          THEN [ocl EXCEPT !.st = "ret", !.ret = 0]
          ELSE IF ocl.out_len < RequiredLen(ocl) \/ body_len <= 0
          THEN [ocl EXCEPT !.st = "ret", !.ret = 0]
          ELSE IF ready = 0 \/ body_ok = 0
          THEN [ocl EXCEPT !.st = "ret", !.ret = 0]
          ELSE [ocl EXCEPT !.st = "kernel"]
  /\ UNCHANGED <<cudaDisabled, avail, hostFit, input, exceptOcl, gpuVars,
                 lastVars, bufVars, callVars>>

\* buffers, kernel arguments, the NDRange launch and the blocking read;
\* cl_ok = 0 is any of these calls failing (goto done)
OclKernel(cl_ok) ==
  /\ ocl.st = "kernel"
  /\ ocl' =
       IF cl_ok = 0
       THEN [ocl EXCEPT !.st = "ret", !.ret = 0]
       ELSE [ocl EXCEPT
               !.st = "copy", !.y = 0,
               !.body = [j \in 0 .. ((BytesPerRow(ocl) * ocl.height) - 1) |->
                           KernelByte(ocl, j \div BytesPerRow(ocl),
                                      j % BytesPerRow(ocl), OclPadLeft(ocl))]]
  /\ UNCHANGED <<cudaDisabled, avail, hostFit, input, exceptOcl, gpuVars,
                 lastVars, bufVars, callVars>>

\* out_scanlines[dst_row] = 0; memcpy of one body row
OclCopyRow ==
  /\ ocl.st = "copy"
  /\ ocl.y < ocl.height
  /\ LET dst_row == ocl.y * ScanlineSize(ocl)
         src_row == ocl.y * BytesPerRow(ocl)
     IN ocl' =
          [ocl EXCEPT
             !.y = @ + 1,
             !.out = [j \in DOMAIN ocl.out |->
                        IF j = dst_row THEN 0
                        ELSE IF j > dst_row /\ j <= dst_row + BytesPerRow(ocl)
                        THEN ocl.body[src_row + ((j - dst_row) - 1)]
                        ELSE ocl.out[j]]]
  /\ UNCHANGED <<cudaDisabled, avail, hostFit, input, exceptOcl, gpuVars,
                 lastVars, bufVars, callVars>>

\* free(body); the Up filter loop starts
OclCopyDone ==
  /\ ocl.st = "copy"
  /\ ocl.y >= ocl.height
  /\ ocl' = [ocl EXCEPT !.st = "filter", !.body = <<>>,
                        !.todo = FilterOrder(ocl.height)]
  /\ UNCHANGED <<cudaDisabled, avail, hostFit, input, exceptOcl, gpuVars,
                 lastVars, bufVars, callVars>>

\* one row of the host-side Up filter, in place
OclFilterRow ==
  /\ ocl.st = "filter"
  /\ ocl.todo # <<>>
  /\ LET y == Head(ocl.todo)
         cur_start == y * ScanlineSize(ocl)
         prev_start == (y - 1) * ScanlineSize(ocl)
     IN ocl' =
          [ocl EXCEPT
             !.todo = Tail(@),
             !.y = y,
             !.out = [j \in DOMAIN ocl.out |->
                        IF j = cur_start THEN 2
                        ELSE IF j > cur_start /\ j <= cur_start + BytesPerRow(ocl)
                        THEN ((ocl.out[j] - ocl.out[prev_start + (j - cur_start)])
                              + 256) % 256
                        ELSE ocl.out[j]]]
  /\ UNCHANGED <<cudaDisabled, avail, hostFit, input, exceptOcl, gpuVars,
                 lastVars, bufVars, callVars>>

\* out_scanlines[0] = 2; return 1
OclFinish ==
  /\ ocl.st = "filter"
  /\ ocl.todo = <<>>
  /\ ocl' = [ocl EXCEPT !.st = "ret", !.ret = 1,
                        !.out = [@ EXCEPT ![0] = 2]]
  /\ UNCHANGED <<cudaDisabled, avail, hostFit, input, exceptOcl, gpuVars,
                 lastVars, bufVars, callVars>>

\* -------------------------------------------------------- zip_writer.c
\* File positions can pass 2^31, so a position is a pair <<hi, lo>> of
\* 16-bit limbs standing for hi * 65536 + lo; hi is unbounded for the true
\* position of the file and taken mod 65536 for a uint32_t.
MaxAdds == 3               \* vs_zip_add_file calls per writer
ZipMaxEntries == 65535     \* 0xFFFF
ZipMaxName == 65535        \* 0xFFFFu
LocalHeaderLen == 30       \* bytes of a local file header before the name
CentralLen == 46           \* bytes of a central directory record before the name
EndLen == 22               \* bytes of the end-of-central-directory record

Wide(n) == <<n \div 65536, n % 65536>>
WideAdd(p, n) ==
  LET lo == p[2] + (n % 65536)
  IN <<(p[1] + (n \div 65536)) + (lo \div 65536), lo % 65536>>

\* _tell_u32: (uint32_t) ftell(f)
TellU32(p) == <<p[1] % 65536, p[2]>>

\* cd_end - cd_start in uint32_t
Sub32(a, b) ==
  LET borrow == IF a[2] < b[2] THEN 1 ELSE 0
  IN <<(((a[1] - b[1]) - borrow) + 65536) % 65536,
       ((a[2] - b[2]) + 65536) % 65536>>

\* _crc32_compute(data, len): a function of the bytes, kept symbolic; the
\* buffers of the model are named, not spelled out
Crc32(data, len) == [buf |-> data, len |-> len]

\* a name is a string of len bytes told apart by its tag; tag 0 is the
\* NULL pointer
ZipName(tag, len) == [tag |-> tag, len |-> len]
NoName == ZipName(0, 0)

\* what one fwrite sequence leaves in the file: a block of len bytes
\* starting at `at`; the other fields of a block depend on its kind
Block(kind, at, len) == [kind |-> kind, at |-> at, len |-> len]

NoZip == [st |-> "none", file |-> <<>>, pos |-> <<0, 0>>, entries |-> <<>>,
          count |-> 0, capacity |-> 0, failed |-> 0, op |-> "none",
          ret |-> 0 - 1, adds |-> 0, added |-> <<>>, argsValid |-> FALSE]

\* fwrite of a block at the current position
Put(z, b) == [z EXCEPT !.file = Append(@, b), !.pos = WideAdd(@, b.len)]

\* a write that failed after `k` bytes
Torn(z, k) == Put(z, Block("torn", z.pos, k))

\* _write_local_file_header, all writes succeeding
LocalHeader(z, name, crc, size) ==
  [kind |-> "local", at |-> z.pos,
   len |-> LocalHeaderLen + (name.len % 65536),
   name |-> name, crc |-> crc, size |-> size]

\* _write_central_dir_entry, all writes succeeding
CentralEntry(z, e) ==
  [kind |-> "central", at |-> z.pos,
   len |-> CentralLen + (e.name.len % 65536),
   name |-> e.name, crc |-> e.crc32, comp_size |-> e.comp_size,
   uncomp_size |-> e.uncomp_size, offset |-> e.local_header_offset]

\* _ensure_capacity
NextCapacity(z) ==
  IF z.count < z.capacity THEN z.capacity
  ELSE IF z.capacity = 0 THEN 32 ELSE z.capacity * 2

\* an argument check that also marks the writer failed
RejectMarksFailed(z) == [z EXCEPT !.ret = 0, !.argsValid = FALSE, !.failed = 1]

\* return 0 of the argument check: nothing is written
Reject(z) == [z EXCEPT !.ret = 0, !.argsValid = FALSE]

\* a writer whose failures are forgotten
WriterFailedNever(z) == FALSE

\* w->failed as vs_zip_add_file and vs_zip_close test it
WriterFailed(z) == z.failed = 1

\* vs_zip_add_file; io names the first library call that fails, if any
AddFile(z, handle, name, data, data_len, io) ==
  IF \/ handle = 0 \/ name = NoName \/ data = NULLP \/ data_len < 0
     \/ WriterFailed(z)
  THEN Reject(z)
  ELSE IF name.len > ZipMaxName
  THEN [z EXCEPT !.failed = 1, !.ret = 0, !.argsValid = TRUE]
  ELSE IF io = "realloc" /\ z.count >= z.capacity
  THEN [z EXCEPT !.failed = 1, !.ret = 0, !.argsValid = TRUE]
  ELSE
    LET z1 == [z EXCEPT !.capacity = NextCapacity(z), !.argsValid = TRUE]
        offset == TellU32(z1.pos)
        crc == Crc32(data, data_len)
        size == data_len
    IN IF io = "header"
       THEN [Torn(z1, 4) EXCEPT !.failed = 1, !.ret = 0]
       ELSE
         LET z2 == Put(z1, LocalHeader(z1, name, crc, size))
         IN IF io = "data" /\ size > 0
            THEN [Torn(z2, 0) EXCEPT !.failed = 1, !.ret = 0]
            ELSE
              LET z3 == Put(z2, [kind |-> "data", at |-> z2.pos,
                                 len |-> size, data |-> data])
              IN IF io = "dup"
                 THEN [z3 EXCEPT !.failed = 1, !.ret = 0]
                 ELSE [z3 EXCEPT
                         !.entries = Append(@,
                            [name |-> name, crc32 |-> crc, comp_size |-> size,
                             uncomp_size |-> size,
                             local_header_offset |-> offset]),
                         !.count = @ + 1,
                         !.ret = 1,
                         !.added = Append(@, [name |-> name, data |-> data,
                                              data_len |-> data_len])]

\* vs_zip_open
ZipOpen(ok) ==
  /\ zip.st = "none"
  /\ zip' = IF ok = 0 THEN [zip EXCEPT !.op = "open", !.ret = 0]
            ELSE [zip EXCEPT !.st = "open", !.op = "open", !.ret = 1]
  /\ UNCHANGED <<cudaDisabled, avail, hostFit, input, exceptZip, gpuVars,
                 lastVars, bufVars, callVars>>

ZipAdd(handle, name, data, data_len, io) ==
  /\ zip.st = "open"
  /\ zip.adds < MaxAdds
  /\ zip' = [AddFile(zip, handle, name, data, data_len, io)
               EXCEPT !.op = "add", !.adds = @ + 1]
  /\ UNCHANGED <<cudaDisabled, avail, hostFit, input, exceptZip, gpuVars,
                 lastVars, bufVars, callVars>>

\* the central directory loop of vs_zip_close over entries from .. to, all
\* writes succeeding: the blocks and the position after them
RECURSIVE CentralBlocks(_, _, _, _)
CentralBlocks(z, from, to, at) ==
  IF from > to THEN [blocks |-> <<>>, pos |-> at]
  ELSE IF from = to
  THEN LET b == CentralEntry([z EXCEPT !.pos = at], z.entries[from])
       IN [blocks |-> <<b>>, pos |-> WideAdd(at, b.len)]
  ELSE LET mid == (from + to) \div 2
           l == CentralBlocks(z, from, mid, at)
           r == CentralBlocks(z, mid + 1, to, l.pos)
       IN [blocks |-> l.blocks \o r.blocks, pos |-> r.pos]

PutCentral(z) ==
  LET c == CentralBlocks(z, 1, z.count, z.pos)
  IN [z EXCEPT !.file = @ \o c.blocks, !.pos = c.pos]

\* a close that never refuses
TooManyNever(z) == FALSE
\* the count check of vs_zip_close
TooMany(z) == z.count > ZipMaxEntries

\* _free_writer: names, entry array, FILE and struct are released
FreeWriter(z) == [z EXCEPT !.st = "freed", !.entries = <<>>]

\* vs_zip_close; io names the write that fails, if any
ZipClose(io) ==
  /\ zip.st = "open"
  /\ zip' =
       IF WriterFailed(zip) \/ TooMany(zip)
       THEN [FreeWriter(zip) EXCEPT !.op = "close", !.ret = 0]
       ELSE
         LET cd_start == TellU32(zip.pos)
         IN IF io = "central" /\ zip.count > 0
            THEN [FreeWriter(Torn(zip, 4)) EXCEPT !.op = "close", !.ret = 0]
            ELSE
              LET z1 == PutCentral(zip)
                  cd_end == TellU32(z1.pos)
                  cd_size == Sub32(cd_end, cd_start)
              IN IF io = "end"
                 THEN [FreeWriter(Torn(z1, 4)) EXCEPT !.op = "close", !.ret = 0]
                 ELSE [FreeWriter(Put(z1,
                          [kind |-> "end", at |-> z1.pos, len |-> EndLen,
                           count |-> zip.count % 65536,
                           cd_size |-> cd_size, offset |-> cd_start]))
                         EXCEPT !.op = "close", !.ret = 1]
  /\ UNCHANGED <<cudaDisabled, avail, hostFit, input, exceptZip, gpuVars,
                 lastVars, bufVars, callVars>>

\* vs_zip_abort
ZipAbort ==
  /\ zip.st = "open"
  /\ zip' = [FreeWriter(zip) EXCEPT !.op = "abort", !.ret = 0 - 1]
  /\ UNCHANGED <<cudaDisabled, avail, hostFit, input, exceptZip, gpuVars,
                 lastVars, bufVars, callVars>>

\* ----- inputs of the ZIP writer
ZipNames == {NoName, ZipName(1, 1), ZipName(2, 5), ZipName(3, ZipMaxName + 1)}
ZipBuffers == {NULLP, 1, 2}
ZipLens == {0 - 1, 0, 2, Int32Max}
ZipIo == {"ok", "realloc", "header", "data", "dup"}

\* capacity after k successful adds
RECURSIVE CapacityFor(_, _)
CapacityFor(k, c) == IF k <= c THEN c ELSE CapacityFor(k, IF c = 0 THEN 32 ELSE c * 2)

\* the writer after k calls vs_zip_add_file(h, name, data, 0) that all
\* returned 1, with one call left
Bulk(k) ==
  LET name == ZipName(1, 1)
      hdr == LocalHeaderLen + name.len
      e(i) == [name |-> name, crc32 |-> Crc32(1, 0), comp_size |-> 0,
               uncomp_size |-> 0, local_header_offset |-> Wide(hdr * (i - 1))]
      b(j) == LET i == (j + 1) \div 2
                  at == Wide(hdr * (i - 1))
              IN IF j % 2 = 1
                 THEN [kind |-> "local", at |-> at, len |-> hdr,
                       name |-> name, crc |-> Crc32(1, 0), size |-> 0]
                 ELSE [kind |-> "data", at |-> WideAdd(at, hdr), len |-> 0,
                       data |-> 1]
  IN [NoZip EXCEPT !.st = "open", !.op = "add", !.ret = 1, !.argsValid = TRUE,
                   !.adds = MaxAdds - 1, !.count = k,
                   !.capacity = CapacityFor(k, 0),
                   !.pos = Wide(hdr * k),
                   !.entries = [i \in 1 .. k |-> e(i)],
                   !.file = [j \in 1 .. (2 * k) |-> b(j)],
                   !.added = [i \in 1 .. k |->
                                [name |-> name, data |-> 1, data_len |-> 0]]]

ZipInputs == {NoZip, Bulk(ZipMaxEntries)}

\* ---------------------------------------- png_recompress.c, one PNG
\* Byte buffers are sequences; the byte at C index i is b[i + 1].  A
\* uint32_t is four bytes, least significant first.
PngSig == <<137, 80, 78, 71, 13, 10, 26, 10>>
TypeIHDR == <<73, 72, 68, 82>>
TypeIDAT == <<73, 68, 65, 84>>
TypeIEND == <<73, 69, 78, 68>>

\* the n bytes of b from C index `from`
Slice(b, from, n) == [k \in 1 .. n |-> b[from + k]]

read_u32_be(b, off) == <<b[off + 4], b[off + 3], b[off + 2], b[off + 1]>>
write_u32_be(v) == <<v[4], v[3], v[2], v[1]>>

\* (int32_t) of a uint32_t
ToInt32(v) ==
  IF v[4] < 128
  THEN v[1] + (256 * v[2]) + (65536 * v[3]) + (16777216 * v[4])
  ELSE (v[1] + (256 * v[2]) + (65536 * v[3])) + (16777216 * (v[4] - 256))

\* c ^ d and c >> 1, c >> 8 of uint32_t
Xor32(c, d) == <<Xor8(c[1], d[1]), Xor8(c[2], d[2]), Xor8(c[3], d[3]),
                 Xor8(c[4], d[4])>>
Shr1(c) == <<(c[1] \div 2) + (128 * (c[2] % 2)),
             (c[2] \div 2) + (128 * (c[3] % 2)),
             (c[3] \div 2) + (128 * (c[4] % 2)),
             c[4] \div 2>>
Shr8(c) == <<c[2], c[3], c[4], 0>>
CrcPoly == <<32, 131, 184, 237>>       \* 0xEDB88320
Ones32 == <<255, 255, 255, 255>>

\* _init_crc32_table
RECURSIVE CrcBits(_, _)
CrcBits(c, k) ==
  IF k = 0 THEN c
  ELSE CrcBits(IF c[1] % 2 = 1 THEN Xor32(CrcPoly, Shr1(c)) ELSE Shr1(c),
               k - 1)
crc32_table == [i \in 0 .. 255 |-> CrcBits(<<i, 0, 0, 0>>, 8)]

\* the byte loop; the test on c[1] is always false and only makes the
\* running value be computed before the next byte is taken
RECURSIVE CrcRun(_, _, _)
CrcRun(c, b, i) ==
  IF i > Len(b) \/ c[1] < 0 THEN c
  ELSE CrcRun(Xor32(crc32_table[Xor8(c[1], b[i])], Shr8(c)), b, i + 1)

\* _crc32_bytes and _crc32_type_and_data
crc32_bytes(b) == Xor32(CrcRun(Ones32, b, 1), Ones32)
crc32_type_and_data(type, data) == crc32_bytes(type \o data)

\* _channels_for_color_type
channels_for_color_type(color_type) ==
  CASE color_type = 0 -> 1
    [] color_type = 2 -> 3
    [] color_type = 4 -> 2
    [] color_type = 6 -> 4
    [] OTHER -> 0

\* ----- the system zlib, as the code uses it.  A stream is a two-byte
\* header that depends on the level, the length, the bytes and a checksum;
\* bytes after the end of the stream are not looked at.
RECURSIVE SumBytes(_, _)
SumBytes(s, n) == IF n = 0 THEN 0 ELSE s[n] + SumBytes(s, n - 1)
ZSum(s) == (1 + SumBytes(s, Len(s))) % 251
compress2(s, level) == <<120, level, Len(s)>> \o s \o <<ZSum(s)>>

\* uncompress into a buffer of cap bytes: Z_OK (0) and the bytes, or an error
uncompress(z, capSmall, capBig) ==
  IF Len(z) < 4 \/ z[1] # 120 \/ z[2] > 9 THEN [ret |-> 0 - 3, out |-> <<>>]
  ELSE LET n == z[3]
       IN IF Len(z) < n + 4 THEN [ret |-> 0 - 5, out |-> <<>>]
          ELSE LET s == Slice(z, 3, n)
               IN IF z[n + 4] # ZSum(s) THEN [ret |-> 0 - 3, out |-> <<>>]
                  ELSE IF ~capBig /\ n > capSmall
                  THEN [ret |-> 0 - 5, out |-> <<>>]
                  ELSE [ret |-> 0, out |-> s]

NoRec == [st |-> "off", png |-> <<>>, png_len |-> 0, level |-> 0,
          offset |-> 0, have_ihdr |-> 0, ihdr |-> <<>>, width |-> Zero32,
          height |-> Zero32, idat |-> <<>>, scan |-> <<>>, out |-> <<>>,
          ret |-> 0 - 1, pass |-> 0, scan1 |-> <<>>, png1 |-> <<>>,
          envFail |-> FALSE]

\* entry: argument checks, _init_zlib, signature
RecEnter(zlib_available) ==
  /\ rec.st = "call"
  /\ rec' =
       IF rec.png_len < 45
       THEN [rec EXCEPT !.st = "ret", !.ret = 0]
       ELSE IF zlib_available = 0
       THEN [rec EXCEPT !.st = "ret", !.ret = 0, !.envFail = TRUE]
       ELSE IF Slice(rec.png, 0, 8) # PngSig
       THEN [rec EXCEPT !.st = "ret", !.ret = 0]
       ELSE [rec EXCEPT !.st = "loop", !.offset = 8]
  /\ UNCHANGED <<cudaDisabled, avail, hostFit, input, exceptRec, gpuVars,
                 lastVars, bufVars, callVars>>

\* an IDAT branch that keeps only the chunk at hand
CollectLast(idat, data) == data

\* realloc + memcpy of the IDAT branch
Collect(idat, data) == idat \o data

\* one iteration of the chunk loop.  data_start + len and data_end + 4 are
\* int32_t sums.  When the first overflows, a build that wraps sees a
\* negative data_end and returns 0 (wraps = 1), a build that folds the
\* comparison away walks out of the buffer (wraps = 0).  When only the second
\* overflows, both checks pass and the loop walks out of the buffer.
RecChunk(wraps, realloc_ok) ==
  /\ rec.st = "loop"
  /\ rec.offset + 8 <= rec.png_len
  /\ LET len == ToInt32(read_u32_be(rec.png, rec.offset))
         data_start == rec.offset + 8
         over_end == len >= 0 /\ len > Int32Max - data_start
         over_crc == ~over_end /\ len >= 0 /\ len > (Int32Max - 4) - data_start
         data_end == data_start + len
         crc_end == data_end + 4
         type == Slice(rec.png, rec.offset + 4, 4)
     IN /\ wraps = 0 => over_end
        /\ rec' =
             IF over_end
             THEN IF wraps = 1 THEN [rec EXCEPT !.st = "ret", !.ret = 0]
                  ELSE [rec EXCEPT !.st = "fault"]
             ELSE IF over_crc
             THEN [rec EXCEPT !.st = "fault"]
             ELSE IF crc_end > rec.png_len \/ data_end < data_start
             THEN [rec EXCEPT !.st = "ret", !.ret = 0]
             ELSE IF type = TypeIHDR
             THEN IF len < 13 THEN [rec EXCEPT !.st = "ret", !.ret = 0]
                  ELSE [rec EXCEPT
                          !.ihdr = Slice(rec.png, data_start, 13),
                          !.width = read_u32_be(rec.png, data_start),
                          !.height = read_u32_be(rec.png, data_start + 4),
                          !.have_ihdr = 1,
                          !.offset = crc_end]
             ELSE IF type = TypeIDAT
             THEN IF realloc_ok = 0
                  THEN [rec EXCEPT !.st = "ret", !.ret = 0, !.envFail = TRUE]
                  ELSE [rec EXCEPT
                          !.idat = Collect(@, Slice(rec.png, data_start, len)),
                          !.offset = crc_end]
             ELSE IF type = TypeIEND
             THEN [rec EXCEPT !.st = "parsed"]
             ELSE [rec EXCEPT !.offset = crc_end]
  /\ UNCHANGED <<cudaDisabled, avail, hostFit, input, exceptRec, gpuVars,
                 lastVars, bufVars, callVars>>

\* the loop condition fails
RecLoopEnd ==
  /\ rec.st = "loop"
  /\ rec.offset + 8 > rec.png_len
  /\ rec' = [rec EXCEPT !.st = "parsed"]
  /\ UNCHANGED <<cudaDisabled, avail, hostFit, input, exceptRec, gpuVars,
                 lastVars, bufVars, callVars>>

\* the output buffer of recompress_png_idat
RecompressedPng(ihdr, compressed) ==
  PngSig
  \o write_u32_be(U32(13)) \o TypeIHDR \o ihdr
  \o write_u32_be(crc32_type_and_data(TypeIHDR, ihdr))
  \o write_u32_be(U32(Len(compressed))) \o TypeIDAT \o compressed
  \o write_u32_be(crc32_type_and_data(TypeIDAT, compressed))
  \o write_u32_be(U32(0)) \o TypeIEND
  \o write_u32_be(crc32_bytes(TypeIEND))

\* after the loop: header checks, inflate, deflate, output.  mem_ok = 0 is
\* a malloc or a compress2 call failing.
RecFinish(mem_ok) ==
  /\ rec.st = "parsed"
  /\ LET bit_depth == rec.ihdr[9]
         color_type == rec.ihdr[10]
         channels == channels_for_color_type(color_type)
         row == Add32(U32(1), Mul32(rec.width, U32(channels)))
         capBig == \/ rec.height[2] + rec.height[3] + rec.height[4] > 0
                   \/ row[2] + row[3] + row[4] > 0
         capSmall == rec.height[1] * row[1]
         u == uncompress(rec.idat, capSmall, capBig)
         lvl == IF rec.level < 0 THEN 0 ELSE IF rec.level > 9 THEN 9
                ELSE rec.level
     IN rec' =
          IF \/ rec.have_ihdr = 0 \/ Len(rec.idat) = 0
             \/ rec.width = Zero32 \/ rec.height = Zero32
          THEN [rec EXCEPT !.st = "ret", !.ret = 0]
          ELSE IF bit_depth # 8 \/ channels = 0
          THEN [rec EXCEPT !.st = "ret", !.ret = 0]
          ELSE IF row = Zero32
          THEN [rec EXCEPT !.st = "ret", !.ret = 0]
          ELSE IF mem_ok = 0
          THEN [rec EXCEPT !.st = "ret", !.ret = 0, !.envFail = TRUE]
          ELSE IF u.ret # 0 \/ Len(u.out) = 0
          THEN [rec EXCEPT !.st = "ret", !.ret = 0]
          ELSE [rec EXCEPT !.st = "ret", !.ret = 1, !.scan = u.out,
                           !.out = RecompressedPng(rec.ihdr,
                                                   compress2(u.out, lvl))]
  /\ UNCHANGED <<cudaDisabled, avail, hostFit, input, exceptRec, gpuVars,
                 lastVars, bufVars, callVars>>

\* the host recompresses the PNG it got back
RecAgain(level) ==
  /\ rec.st = "ret"
  /\ rec.ret = 1
  /\ rec.pass = 1
  /\ rec' = [NoRec EXCEPT !.st = "call", !.png = rec.out,
                          !.png_len = Len(rec.out), !.level = level,
                          !.pass = 2, !.scan1 = rec.scan, !.png1 = rec.png1]
  /\ UNCHANGED <<cudaDisabled, avail, hostFit, input, exceptRec, gpuVars,
                 lastVars, bufVars, callVars>>

\* ----- inputs of recompress_png_idat
MaxScan == 2               \* largest image width and height
RecLevels == {0 - 1, 0, 6, 12}
TypeTEXT == <<116, 69, 88, 116>>

Chunk(type, data) ==
  write_u32_be(U32(Len(data))) \o type \o data
  \o write_u32_be(crc32_type_and_data(type, data))
\* a chunk header whose length field is v, followed by pad bytes
LyingChunk(type, v, pad) ==
  write_u32_be(v) \o type \o [k \in 1 .. pad |-> 0]

IhdrPayload(w, h, depth, color) ==
  <<0, 0, 0, w, 0, 0, 0, h, depth, color, 0, 0, 0>>
\* Up-filtered scanlines of a w x h image with c channels
ScanOf(w, h, c, seed) ==
  [k \in 1 .. (h * (1 + (w * c))) |->
     IF (k - 1) % (1 + (w * c)) = 0 THEN 2 ELSE (seed + (7 * k)) % 256]

Images == { [w |-> d[1], h |-> d[2], color |-> col] :
              d \in {<<1, 1>>, <<MaxScan, MaxScan>>}, col \in {0, 2} }
StreamOf(im, seed) ==
  compress2(ScanOf(im.w, im.h, channels_for_color_type(im.color), seed), 6)

GoodPngs(im) ==
  LET z == StreamOf(im, 9)
      other == StreamOf(im, 100)
      hd == Chunk(TypeIHDR, IhdrPayload(im.w, im.h, 8, im.color))
      end == Chunk(TypeIEND, <<>>)
  IN { PngSig \o hd \o Chunk(TypeIDAT, z) \o end,
       PngSig \o hd \o Chunk(TypeIDAT, SubSeq(z, 1, 2))
         \o Chunk(TypeIDAT, SubSeq(z, 3, Len(z))) \o end,
       PngSig \o hd \o Chunk(TypeTEXT, <<104, 105>>) \o Chunk(TypeIDAT, z)
         \o end,
       PngSig \o hd \o Chunk(TypeIDAT, z) \o end \o Chunk(TypeIDAT, other),
       PngSig \o hd \o Chunk(TypeIDAT, z),
       PngSig \o Chunk(TypeIHDR, IhdrPayload(im.w, im.h, 8, im.color) \o <<7>>)
         \o Chunk(TypeIDAT, z) \o end,
       PngSig \o Chunk(TypeIHDR, IhdrPayload(im.w + 1, im.h, 8, im.color))
         \o Chunk(TypeIDAT, z) \o end,
       PngSig \o hd \o Chunk(TypeIDAT, <<>>) \o Chunk(TypeIDAT, z) \o end,
       PngSig \o hd \o Chunk(TypeIDAT, z) \o Chunk(TypeIDAT, other) \o end,
       PngSig \o hd \o Chunk(TypeIDAT, z \o <<1, 2, 3>>) \o end }

BadPngs ==
  LET im == [w |-> 1, h |-> 1, color |-> 0]
      z == StreamOf(im, 9)
      hd == Chunk(TypeIHDR, IhdrPayload(1, 1, 8, 0))
      end == Chunk(TypeIEND, <<>>)
      pad == Chunk(TypeTEXT, <<1, 2, 3, 4, 5, 6, 7, 8, 9, 10, 11, 12, 13>>)
  IN { <<137, 80, 78, 71, 13, 10, 26, 11>> \o hd \o Chunk(TypeIDAT, z) \o end,
       PngSig \o Chunk(TypeIHDR, IhdrPayload(1, 1, 16, 0))
         \o Chunk(TypeIDAT, z) \o end,
       PngSig \o Chunk(TypeIHDR, IhdrPayload(1, 1, 8, 3))
         \o Chunk(TypeIDAT, z) \o end,
       PngSig \o Chunk(TypeIHDR, IhdrPayload(0, 1, 8, 0))
         \o Chunk(TypeIDAT, z) \o end,
       PngSig \o Chunk(TypeIHDR, IhdrPayload(1, 1, 8, 0))
         \o Chunk(TypeIDAT, StreamOf([w |-> 2, h |-> 2, color |-> 0], 9)) \o end,
       PngSig \o pad \o Chunk(TypeIDAT, z) \o end,
       PngSig \o hd \o pad \o end,
       PngSig \o hd \o Chunk(TypeIDAT, <<1, 2, 3, 4, 5, 6>>) \o end,
       PngSig \o Chunk(TypeIHDR, <<0, 0, 0, 1, 0, 0, 0, 1, 8, 0, 0, 0>>)
         \o Chunk(TypeIDAT, z) \o end,
       PngSig \o hd \o LyingChunk(TypeIDAT, U32(200), 20),
       PngSig \o hd \o LyingChunk(TypeIDAT, Ones32, 20),
       PngSig \o LyingChunk(TypeTEXT, U32(Int32Max - 15), 40),
       PngSig \o LyingChunk(TypeTEXT, U32(Int32Max - 18), 40),
       PngSig \o hd }

RecCall(png, level) ==
  [NoRec EXCEPT !.st = "call", !.png = png, !.png_len = Len(png),
                !.level = level, !.pass = 1, !.png1 = png]
RecInputs ==
  { RecCall(png, level) :
      png \in (UNION {GoodPngs(im) : im \in Images}) \cup BadPngs,
      level \in RecLevels }

\* ----- inputs of the scanline builder
MaxSrcWidth == 7      \* largest src_width
MaxOutWidth == 3      \* largest out_width
MaxHeight == 3        \* largest height
GreySeeds == {1, 60, 200}
\* a greyscale image whose pixels differ from their neighbours
GreyImage(seed, w, h) ==
  [i \in 0 .. (w * h - 1) |-> (seed + (37 * (i % w)) + (101 * (i \div w))) % 256]

PngCall(seed, sw, h, ow, ch, slack) ==
  LET len == ((1 + (ow * ch)) * h) + slack
  IN [NoPng EXCEPT !.st = "call", !.grey = GreyImage(seed, sw, h),
                   !.src_width = sw, !.height = h, !.out_width = ow,
                   !.channels = ch, !.out_len = len,
                   !.out = [j \in 0 .. (len - 1) |-> UNINIT]]

PngInputs ==
  { PngCall(seed, sw, h, ow, ch, slack) :
      seed \in GreySeeds, sw \in 1 .. MaxSrcWidth, h \in 1 .. MaxHeight,
      ow \in 1 .. MaxOutWidth, ch \in {1, 2, 3}, slack \in {0 - 1, 0, 1} }

\* ----- inputs of the decoder
MaxTokens == 3        \* tokens in an input stream
MaxCut == 2           \* bytes missing at the end of a stream
MaxRep == 9           \* leading maximal runs of a stream for a huge buffer

BigRun == <<129, 239, 255, 255, 255>>    \* value 3, stride 2^28 - 1
RleTokens ==
  { <<0>>, <<1>>,                        \* single pixels, values 0 and 3
    <<130, 0>>, <<131, 2>>,              \* one-byte strides 0 and 2
    <<129, 167, 16>>,                    \* two-byte stride 10000
    <<131, 193, 0, 0>>,                  \* three-byte stride 65536
    BigRun,                              \* four-byte stride
    <<133, 248>> }                       \* descriptor 1111xxxx

RECURSIVE Flatten(_)
Flatten(ts) == IF ts = <<>> THEN <<>> ELSE Head(ts) \o Flatten(Tail(ts))
RECURSIVE Rep(_, _)
Rep(t, k) == IF k = 0 THEN <<>> ELSE t \o Rep(t, k - 1)
TokenSeqs(k) == UNION {[1 .. m -> RleTokens] : m \in 0 .. k}
Cut(b, c) == SubSeq(b, 1, IF Len(b) > c THEN Len(b) - c ELSE 0)
Streams(k) == {Cut(Flatten(ts), c) : ts \in TokenSeqs(k), c \in 0 .. MaxCut}

ScenarioS1 == <<1, 128, 39, 16>>         \* [0x01, 0x80, 0x27, 0x10]
ZeroRun10000 == <<128, 167, 16>>         \* [0x80, 0xA7, 0x10]

RleCall(data, w, h, key, li) ==
  [NoRle EXCEPT !.st = "call", !.data = data, !.data_len = Len(data),
                !.width = w, !.height = h, !.pixel_count = w * h,
                !.encryption_key = key, !.layer_index = li]

RleInputs ==
  { RleCall(d, dim[1], dim[2], key, li) :
      d \in Streams(MaxTokens), dim \in {<<3, 1>>, <<3, 2>>},
      key \in {0, 1}, li \in {0, 1} }
  \cup { RleCall(Rep(BigRun, r) \o d, Int32Max, 1, 0, 0) :
           r \in 0 .. MaxRep, d \in Streams(1) }
  \cup { RleCall(d, 100, 100, 1, li) : d \in Streams(MaxTokens), li \in {0, 1} }
  \cup { RleCall(d, 100, 100, 0, 0) : d \in {ScenarioS1, ZeroRun10000} }
  \cup { RleCall(<<1>>, 0, 1, 0, 0), RleCall(<<1>>, 3, 1, 0 - 1, 1) }

\* ----- inputs of the area statistics
AreaW == 3            \* largest width of an exhaustively drawn image
AreaH == 3            \* largest height of an exhaustively drawn image
MaxRunArea == 8       \* longest run of a decoded layer handed on pixel by pixel
WideWidth == 65538    \* a row longer than 16 bits of x

WideCells(h) ==
  {(y * WideWidth) + x : x \in {0, 1, 65536, 65537}, y \in 0 .. (h - 1)}

AreaInputs ==
  UNION { { AreaCall(d[1], d[2], S) : S \in SUBSET (0 .. (d[1] * d[2] - 1)) } :
            d \in (1 .. AreaW) \X (1 .. AreaH) }
  \cup { AreaCall(WideWidth, 1, S) : S \in SUBSET WideCells(1) }
  \cup { AreaCall(WideWidth, 2, S) : S \in SUBSET WideCells(2) }
  \cup { AreaCall(0, AreaH, {}), AreaCall(AreaW, 0, {}) }

\* _process_one_layer: the decoded pixels go to compute_layer_area_stats
LayerArea ==
  /\ rle.st = "ret"
  /\ rle.ret = 1
  /\ area.st = "off"
  /\ \A k \in 1 .. Len(rle.out) :
       /\ rle.out[k].from >= 0
       /\ rle.out[k].to - rle.out[k].from < MaxRunArea
  /\ area' = AreaCall(rle.width, rle.height,
                      UNION {rle.out[k].from .. rle.out[k].to :
                               k \in 1 .. Len(rle.out)})
  /\ UNCHANGED <<cudaDisabled, avail, hostFit, input, exceptArea, gpuVars,
                 lastVars, bufVars, callVars>>

\* ------------------------------------------ the claim protocol, with history
\* One pool of any of the five kinds on a batch of up to MaxCount items:
\* the shared next_index / failed pair, the caller's create and join loops
\* (t, started, and which handles ts[t] pthread_create wrote), each worker's
\* start / end / idx, the slots that hold an output, and three records of
\* what happened: claims (every
\* range a take returned, with its worker), times (how often each index was
\* handed to the per-item function) and envFail (an allocation or a thread
\* creation failed).
MaxCount == 6
MaxWorkers == 3
PoolKinds == {"layer", "decode", "scanline", "compress", "recompress"}
Workers == 0 .. (MaxWorkers - 1)
Indices == 0 .. (MaxCount - 1)
NoPwork ==
  [st |-> "none", kind |-> "none", count |-> 0, threads |-> 0,
   next_index |-> 0, failed |-> FALSE, i |-> 0, t |-> 0, started |-> 0,
   written |-> [t \in Workers |-> FALSE],
   w |-> [t \in Workers |-> [st |-> "none", start |-> 0, end |-> 0,
                             idx |-> 0]],
   out |-> {}, ret |-> 0 - 1, claims |-> {},
   times |-> [i \in Indices |-> 0], envFail |-> FALSE]

\* the batch function up to the loops: next_index = 0, failed = 0, threads
\* clamped to count; one thread (or one item) runs the serial loop, whose
\* scratch buffers the per-layer call allocates first.
PwRun(scratch_ok) ==
  /\ pwork.st = "ready"
  /\ LET n == Min(pwork.threads, pwork.count)
     IN pwork' =
          IF n <= 1 /\ pwork.kind = "layer" /\ ~scratch_ok
            THEN [pwork EXCEPT !.st = "returned", !.ret = 0,
                               !.envFail = TRUE]
          ELSE IF n <= 1
            THEN [pwork EXCEPT !.st = "serial", !.threads = n]
          ELSE [pwork EXCEPT !.st = "create", !.threads = n]
  /\ UNCHANGED <<cudaDisabled, avail, hostFit, input, exceptPwork, gpuVars,
                 lastVars, bufVars, callVars>>

\* for (t < threads) if (pthread_create(&ts[t], ...) == 0) started++;
PwCreate(ok) ==
  /\ pwork.st = "create"
  /\ pwork' =
       [pwork EXCEPT
          !.w[pwork.t].st = IF ~ok THEN @
                            ELSE IF pwork.kind = "layer" THEN "start"
                            ELSE "take",
          !.written[pwork.t] = ok,
          !.started = IF ok THEN @ + 1 ELSE @,
          !.envFail = @ \/ ~ok,
          !.t = IF @ + 1 = pwork.threads THEN 0 ELSE @ + 1,
          !.st = IF pwork.t + 1 = pwork.threads THEN "join" ELSE "create"]
  /\ UNCHANGED <<cudaDisabled, avail, hostFit, input, exceptPwork, gpuVars,
                 lastVars, bufVars, callVars>>

\* the per-item function on index i: the index is counted; success stores
\* the item's output, a failure sets the flag under the lock
PwItem(p, i, ok) ==
  [p EXCEPT !.times[i] = @ + 1, !.failed = @ \/ ~ok,
            !.out = IF ok THEN @ \cup {i} ELSE @]

\* _process_batch_worker before its loop: no scratch, no work
PwInit(t, ok) ==
  /\ pwork.w[t].st = "start"
  /\ pwork' = [pwork EXCEPT !.w[t].st = IF ok THEN "take" ELSE "exit",
                            !.failed = @ \/ ~ok]
  /\ UNCHANGED <<cudaDisabled, avail, hostFit, input, exceptPwork, gpuVars,
                 lastVars, bufVars, callVars>>

\* a claim that ignores the failed flag
TakeOkIgnoringFailed(p) == p.next_index < p.count

\* the condition of the take functions, read under the lock
TakeOk(p) == ~p.failed /\ p.next_index < p.count

\* a range that is not cut at count
TakeEndUnclamped(p, claim) == p.next_index + claim

\* end = start + claim; if (end > count) end = count;  (the recompress
\* pool's next_index++ is the same with claim 1)
TakeEnd(p, claim) ==
  IF p.next_index + claim > p.count THEN p.count ELSE p.next_index + claim

\* _take_process_range / _take_decode_range / _take_scanline_range /
\* _take_compress_range / _batch_take_index: one critical section
PwTake(t) ==
  /\ pwork.w[t].st = "take"
  /\ pwork' =
       IF TakeOk(pwork)
         THEN LET start == pwork.next_index
                  end == TakeEnd(pwork, ClaimSize(pwork.kind))
              IN [pwork EXCEPT
                    !.next_index = end,
                    !.w[t] = [st |-> "loop", start |-> start, end |-> end,
                              idx |-> start],
                    !.claims = @ \cup {<<t, start, end>>}]
         ELSE [pwork EXCEPT !.w[t].st = "exit"]
  /\ UNCHANGED <<cudaDisabled, avail, hostFit, input, exceptPwork, gpuVars,
                 lastVars, bufVars, callVars>>

\* one pass of for (idx = start; idx < end; idx++) in the worker
PwProcess(t, ok) ==
  /\ pwork.w[t].st = "loop"
  /\ LET p == PwItem(pwork, pwork.w[t].idx, ok)
     IN pwork' = [p EXCEPT !.w[t].idx = @ + 1,
                           !.w[t].st = IF pwork.w[t].idx + 1 < pwork.w[t].end
                                         THEN "loop" ELSE "take"]
  /\ UNCHANGED <<cudaDisabled, avail, hostFit, input, exceptPwork, gpuVars,
                 lastVars, bufVars, callVars>>

\* one pass of the serial loop: for (i < count && !failed) / if (failed) break
PwSerial(ok) ==
  /\ pwork.st = "serial"
  /\ pwork.i < pwork.count
  /\ ~pwork.failed
  /\ pwork' = [PwItem(pwork, pwork.i, ok) EXCEPT !.i = @ + 1]
  /\ UNCHANGED <<cudaDisabled, avail, hostFit, input, exceptPwork, gpuVars,
                 lastVars, bufVars, callVars>>

\* for (t < started) pthread_join(ts[t], NULL): a handle pthread_create
\* wrote waits for its thread; an unwritten one is undefined and may return
\* at any time.
PwJoinThread ==
  /\ pwork.st = "join"
  /\ pwork.t < pwork.started
  /\ pwork.written[pwork.t] => pwork.w[pwork.t].st = "exit"
  /\ pwork' = [pwork EXCEPT !.t = @ + 1]
  /\ UNCHANGED <<cudaDisabled, avail, hostFit, input, exceptPwork, gpuVars,
                 lastVars, bufVars, callVars>>

\* past the join loop (or the serial loop): started == 0 returns 0, then
\* the flag decides.  A phase returns failed ? 0 : 1; the two batch calls
\* go on to the aggregation, which returns 0 for an empty slot or a failed
\* blob allocation.
PwReturn(blob_ok) ==
  /\ \/ pwork.st = "join" /\ pwork.t = pwork.started
     \/ /\ pwork.st = "serial"
        /\ pwork.i = pwork.count \/ pwork.failed
  /\ LET batch == pwork.kind \in {"layer", "recompress"}
         early == (pwork.st = "join" /\ pwork.started = 0) \/ pwork.failed
         empty == \E i \in Indices : i < pwork.count /\ i \notin pwork.out
     IN pwork' =
          [pwork EXCEPT
             !.st = "returned",
             !.envFail = @ \/ (batch /\ ~early /\ ~empty /\ ~blob_ok),
             !.ret = IF early \/ (batch /\ (empty \/ ~blob_ok))
                       THEN 0 ELSE 1]
  /\ UNCHANGED <<cudaDisabled, avail, hostFit, input, exceptPwork, gpuVars,
                 lastVars, bufVars, callVars>>

\* --------------------------------- chunk sizing and the chunk loop, alone
\* process_layers_batch_phased on a batch of up to MaxBatch layers, as far
\* as the chunks go: the arguments, the library's answers, max_chunk, the
\* loop variable start, and two records of what happened: chunks (start
\* and size of every chunk handed to _phased_chunk) and mega (the size of
\* every chunk handed to the mega-batch kernel).
MaxBatch == 12
Mi == 1048576

\* int64 byte counts as <<MiB, bytes below one MiB>>
Mem(n) == <<n \div Mi, n % Mi>>
MemAdd(a, b) == <<a[1] + b[1] + ((a[2] + b[2]) \div Mi), (a[2] + b[2]) % Mi>>
MemTimes(f, a) == <<(f * a[1]) + ((f * a[2]) \div Mi), (f * a[2]) % Mi>>
MemLe(a, b) == a[1] < b[1] \/ (a[1] = b[1] /\ a[2] <= b[2])

\* budget / per, as far as it is below limit: the quotient is only ever
\* compared with a chunk size of at most limit
QuotBelow(budget, per, limit) ==
  LET fs == {f \in 0 .. limit : MemLe(MemTimes(f, per), budget)}
  IN CHOOSE f \in fs : \A g \in fs : g <= f

\* int64_t fit = budget / per; if (fit < 1) fit = 1;
FitBelow(budget, per, limit) ==
  IF QuotBelow(budget, per, limit) < 1 THEN 1
  ELSE QuotBelow(budget, per, limit)

HostBudget == <<8192, 0>>                \* 8 GiB
VramReserve == 512                       \* MiB kept free on the device

pixel_count(d) == d.src_width * d.height
scanlines_len(d) == (1 + (d.out_width * d.channels)) * d.height

\* pixel_count + 2 * scanlines_len + pixel_count / 4
per_layer_mem(d) ==
  MemAdd(MemAdd(Mem(pixel_count(d)), MemTimes(2, Mem(scanlines_len(d)))),
         Mem(pixel_count(d) \div 4))

\* pixel_count + scanlines_len
vram_per_layer(d) == MemAdd(Mem(pixel_count(d)), Mem(scanlines_len(d)))

\* the VRAM clamp's quotient; 0 when vram is unknown or within the reserve
VramFit(vram, d, limit) ==
  IF MemLe(vram, <<0, 0>>) \/ MemLe(vram, <<VramReserve, 0>>) THEN 0
  ELSE FitBelow(<<vram[1] - VramReserve, vram[2]>>, vram_per_layer(d), limit)

NoChk ==
  [st |-> "off", count |-> 0, dims |-> [src_width |-> 0, height |-> 0,
                                        out_width |-> 0, channels |-> 0],
   use_gpu_batch |-> 0, active |-> 0, backend |-> 0,
   vram |-> <<0, 0>>, max_layers |-> 0, max_chunk |-> 0, start |-> 0,
   ret |-> 0 - 1, chunks |-> <<>>, mega |-> {}]

\* process_layers_batch_phased from the thread count to "Minimum sanity":
\* vram and max_layers are what the CUDA library answers for this device
\* and these dimensions (0: not loaded or not exported)
ChkSize(vram, max_layers) ==
  /\ chk.st = "ready"
  /\ LET fit == FitBelow(HostBudget, per_layer_mem(chk.dims), chk.count)
         cuda_active == chk.active = 1 /\ chk.backend = 3
     IN chk' = [chk EXCEPT
                  !.st = "loop",
                  !.vram = vram,
                  !.max_layers = max_layers,
                  !.max_chunk =
                     MaxChunk(chk.count, fit, chk.use_gpu_batch,
                              VramFit(vram, chk.dims, chk.count),
                              cuda_active, max_layers),
                  !.start = 0]
  /\ UNCHANGED <<cudaDisabled, avail, hostFit, input, exceptChk, gpuVars,
                 lastVars, bufVars, callVars>>

\* one pass of for (start = 0; start < count; start += max_chunk): the
\* chunk goes to _phased_chunk, whose phase 2 hands it to the mega-batch
\* kernel when GPU batch is requested, CUDA is active, the chunk is within
\* the cap and both blobs are allocated.  A failed chunk ends the call.
ChkChunk(max_layers, blob_ok, chunk_ok) ==
  /\ chk.st = "loop"
  /\ chk.start < chk.count
  /\ LET left == chk.count - chk.start
         chunk_count == IF left > chk.max_chunk THEN chk.max_chunk ELSE left
         called == /\ chk.use_gpu_batch # 0
                   /\ chk.active = 1
                   /\ chk.backend = 3
                   /\ chunk_count <= CudaCap(max_layers)
                   /\ blob_ok
     IN chk' = [chk EXCEPT
                  !.chunks = Append(@, <<chk.start, chunk_count>>),
                  !.mega = IF called THEN @ \cup {chunk_count} ELSE @,
                  !.start = IF chunk_ok THEN @ + chk.max_chunk ELSE @,
                  !.st = IF chunk_ok THEN "loop" ELSE "returned",
                  !.ret = IF chunk_ok THEN @ ELSE 0]
  /\ UNCHANGED <<cudaDisabled, avail, hostFit, input, exceptChk, gpuVars,
                 lastVars, bufVars, callVars>>

\* the loop is over: the outputs are aggregated
ChkDone(blob_ok) ==
  /\ chk.st = "loop"
  /\ chk.start >= chk.count
  /\ chk' = [chk EXCEPT !.st = "returned",
                        !.ret = IF blob_ok THEN 1 ELSE 0]
  /\ UNCHANGED <<cudaDisabled, avail, hostFit, input, exceptChk, gpuVars,
                 lastVars, bufVars, callVars>>

\* ---------------------------- gpu_opencl_scanline.c: the runtime, threaded
\* g_rt (initialized, ready, the lock and who holds it) and the worker
\* threads inside gpu_opencl_build_scanlines, each at one of: idle, check
\* (line 309), mutexinit (310), lock1 (312), entered (208), set (209),
\* create (211-301), unlock1 (314), lock2 (365), use (366-417), unlock2
\* (418), done.  Three records of what happened: inits (calls of
\* vs_mutex_init), busyInit (one of them hit a lock that was held) and
\* created (times the context, queue, program and kernel were created).
MaxCallers == 2
Callers == 0 .. (MaxCallers - 1)
Unlocked == 0 - 1
NoClrt ==
  [initialized |-> 0, ready |-> 0, holder |-> Unlocked,
   at |-> [t \in Callers |-> "off"], ret |-> [t \in Callers |-> 0 - 1],
   inits |-> 0, busyInit |-> FALSE, created |-> 0]

ClrtStep(next) ==
  /\ clrt' = next
  /\ UNCHANGED <<cudaDisabled, avail, hostFit, input, exceptClrt, gpuVars,
                 lastVars, bufVars, callVars>>

\* a worker enters gpu_opencl_build_scanlines with arguments that pass the
\* checks and reaches _ensure_runtime_init
ClCall(t) ==
  /\ clrt.at[t] = "idle"
  /\ ClrtStep([clrt EXCEPT !.at[t] = "check"])

\* if (!g_rt.initialized): read without the lock
ClCheck(t) ==
  /\ clrt.at[t] = "check"
  /\ ClrtStep([clrt EXCEPT !.at[t] = IF clrt.initialized = 0
                                      THEN "mutexinit" ELSE "lock1"])

\* vs_mutex_init(&g_rt.lock).  Initialising a mutex that a thread holds is
\* undefined: the mutex comes out unlocked (reset) or stays as it was.
ClMutexInit(t, reset) ==
  /\ clrt.at[t] = "mutexinit"
  /\ ClrtStep([clrt EXCEPT
                 !.at[t] = "lock1",
                 !.inits = @ + 1,
                 !.busyInit = @ \/ clrt.holder # Unlocked,
                 !.holder = IF reset THEN Unlocked ELSE @])

\* vs_mutex_lock(&g_rt.lock), in _ensure_runtime_init and before the kernel
ClLock(t) ==
  /\ clrt.at[t] \in {"lock1", "lock2"}
  /\ clrt.holder = Unlocked
  /\ ClrtStep([clrt EXCEPT !.holder = t,
                           !.at[t] = IF clrt.at[t] = "lock1"
                                       THEN "entered" ELSE "use"])

\* _init_opencl_runtime_locked: if (g_rt.initialized) return g_rt.ready;
ClEntered(t) ==
  /\ clrt.at[t] = "entered"
  /\ ClrtStep([clrt EXCEPT
                 !.at[t] = IF clrt.initialized # 0 THEN "unlock1" ELSE "set",
                 !.ret[t] = IF clrt.initialized # 0 THEN clrt.ready ELSE @])

\* g_rt.initialized = 1;
ClSet(t) ==
  /\ clrt.at[t] = "set"
  /\ ClrtStep([clrt EXCEPT !.initialized = 1, !.at[t] = "create"])

\* symbols, platform, device, context, queue, program, kernel: ready = 1
\* when all of it worked, ready = 0 at the first step that did not
ClCreate(t, ok) ==
  /\ clrt.at[t] = "create"
  /\ ClrtStep([clrt EXCEPT !.ready = IF ok THEN 1 ELSE 0,
                           !.created = IF ok THEN @ + 1 ELSE @,
                           !.ret[t] = IF ok THEN 1 ELSE 0,
                           !.at[t] = "unlock1"])

\* vs_mutex_unlock(&g_rt.lock); a caller that was told "not ready" returns 0
ClUnlock(t) ==
  /\ clrt.at[t] \in {"unlock1", "unlock2"}
  /\ ClrtStep([clrt EXCEPT
                 !.holder = Unlocked,
                 !.at[t] = IF clrt.at[t] = "unlock1" /\ clrt.ret[t] = 1
                             THEN "lock2" ELSE "done"])

\* under the lock again: if (!g_rt.ready) return 0; else the buffers, the
\* kernel, the read-back
ClUse(t, ok) ==
  /\ clrt.at[t] = "use"
  /\ ClrtStep([clrt EXCEPT
                 !.ret[t] = IF clrt.ready = 0 \/ ~ok THEN 0 ELSE 1,
                 !.at[t] = "unlock2"])

\* ------------------------------------- the thread metrics array (analytics)
\* g_process_layers_analytics_enabled, the calloc'ed g_last_thread_metrics
\* with its capacity (0: NULL), g_last_process_layers_thread_count, and what
\* the last process_layers_last_thread_stats call read: n entries, the
\* first n of the array.
MaxStatThreads == 3
MaxStatCalls == 3
NoAna == [enabled |-> 0, cap |-> 0, count |-> 0, n |-> 0, calls |-> 0,
          fresh |-> FALSE]

\* set_process_layers_batch_analytics
AnaSet(enabled) ==
  /\ ana.enabled # (IF enabled # 0 THEN 1 ELSE 0)
  /\ ana' = [ana EXCEPT !.enabled = IF enabled # 0 THEN 1 ELSE 0]
  /\ UNCHANGED <<cudaDisabled, avail, hostFit, input, exceptAna, gpuVars,
                 lastVars, bufVars, callVars>>

\* if (work.analytics_enabled) { free the old array; calloc(threads) }
AnaAlloc(a, threads, calloc_ok) ==
  IF a.enabled = 1
    THEN [a EXCEPT !.cap = IF calloc_ok THEN threads ELSE 0, !.fresh = FALSE]
    ELSE a

\* process_layers_batch as far as the array and the thread count go.  how:
\* "early" returns before the array is touched (arguments, work buffers,
\* handle array), "run" returns 0 after it (scratch, no thread started, a
\* layer failed), "done" reaches the store of the readouts.
AnaBatch(threads, how, calloc_ok) ==
  /\ ana.calls < MaxStatCalls
  /\ LET a == [ana EXCEPT !.calls = @ + 1]
         b == AnaAlloc(a, threads, calloc_ok)
     IN ana' = IF how = "early" THEN a
               ELSE IF how = "run" THEN b
               ELSE [b EXCEPT !.count = threads, !.fresh = (a.enabled = 1)]
  /\ UNCHANGED <<cudaDisabled, avail, hostFit, input, exceptAna, gpuVars,
                 lastVars, bufVars, callVars>>

\* process_layers_last_thread_stats with valid pointers: nothing is read
\* without an array or a count; else entries 0 .. min(count, max_count) - 1
AnaRead(max_count) ==
  /\ ana' = [ana EXCEPT !.n = IF max_count <= 0 \/ ana.cap = 0
                                   \/ ana.count <= 0
                                THEN 0 ELSE Min(ana.count, max_count)]
  /\ ana'.n # ana.n
  /\ UNCHANGED <<cudaDisabled, avail, hostFit, input, exceptAna, gpuVars,
                 lastVars, bufVars, callVars>>

\* ------------------------------------ the deflate provider, loaded lazily
\* g_zlib.loaded / g_zlib.available and MaxZlCallers workers of one
\* recompress batch, each inside recompress_png_idat for one item.
\* loadable: dlopen and both dlsym calls succeed; pre: an earlier call has
\* been through _init_zlib.  at: where the worker is;
\* ret: what its recompress_png_idat returned; unavailable: it returned 0
\* at the g_zlib.available test.
MaxZlCallers == 3
ZlCallers == 0 .. (MaxZlCallers - 1)
NoZl == [loadable |-> FALSE, pre |-> FALSE, loaded |-> 0, available |-> 0,
         at |-> [t \in ZlCallers |-> "off"],
         ret |-> [t \in ZlCallers |-> 0 - 1],
         unavailable |-> [t \in ZlCallers |-> FALSE],
         loads |-> 0]

ZlStep(next) ==
  /\ zl' = next
  /\ UNCHANGED <<cudaDisabled, avail, hostFit, input, exceptZl, gpuVars,
                 lastVars, bufVars, callVars>>

\* recompress_png_idat past its argument test: _init_zlib is entered
ZlCall(t) ==
  /\ zl.at[t] = "idle"
  /\ ZlStep([zl EXCEPT !.at[t] = "check"])

\* if (g_zlib.loaded) return;
ZlCheck(t) ==
  /\ zl.at[t] = "check"
  /\ ZlStep([zl EXCEPT !.at[t] = IF zl.loaded = 1 THEN "test" ELSE "set"])

\* g_zlib.loaded = 1;
ZlSet(t) ==
  /\ zl.at[t] = "set"
  /\ ZlStep([zl EXCEPT !.loaded = 1, !.at[t] = "load"])

\* the candidate loop: the first library with both symbols sets the
\* pointers and available = 1
ZlLoad(t) ==
  /\ zl.at[t] = "load"
  /\ ZlStep([zl EXCEPT !.available = IF zl.loadable THEN 1 ELSE @,
                       !.loads = @ + 1,
                       !.at[t] = "test"])

\* if (!g_zlib.available) return 0;
ZlTest(t) ==
  /\ zl.at[t] = "test"
  /\ ZlStep(IF zl.available = 1
              THEN [zl EXCEPT !.at[t] = "work"]
              ELSE [zl EXCEPT !.at[t] = "ret", !.ret[t] = 0,
                              !.unavailable[t] = TRUE])

\* the rest of recompress_png_idat on the item
ZlWork(t, ok) ==
  /\ zl.at[t] = "work"
  /\ ZlStep([zl EXCEPT !.at[t] = "ret", !.ret[t] = IF ok THEN 1 ELSE 0])

\* ------------------------------------------- the item range test, alone
\* off, len and input_blob_len of one item as the three per-item functions
\* (_process_one_layer, _decode_one_layer, _batch_process_one) see them:
\* int32_t values.  st: "call", then "read" (the item's bytes
\* input_blob[off .. off + len - 1] are handed on) or "failed".
NoRng == [st |-> "off", fn |-> "none", off |-> 0, len |-> 0,
          input_blob_len |-> 0]

\* off + len in int32_t where it is defined: the sum fits
SumFits(off, len) == off <= 0 \/ len <= Int32Max - off

\* off + len as two's complement addition gives it
WrapSum(off, len) == ToInt32(Add32(U32(off), U32(len)))

\* if (off < 0 || len <= 0 || off + len > w->input_blob_len) fail;
\* the sum of two positive int32_t that does not fit is undefined: the
\* build may wrap it (wrapped) or take either branch.
RangeRejects(off, len, input_blob_len, wrapped, taken) ==
  \/ off < 0
  \/ len <= 0
  \/ IF SumFits(off, len) THEN off + len > input_blob_len
     ELSE IF wrapped THEN WrapSum(off, len) > input_blob_len
     ELSE taken

\* the test of one item and what follows it
RngCheck(wrapped, taken) ==
  /\ rng.st = "call"
  /\ rng' = [rng EXCEPT !.st =
               IF RangeRejects(rng.off, rng.len, rng.input_blob_len,
                               wrapped, taken)
                 THEN "failed" ELSE "read"]
  /\ UNCHANGED <<cudaDisabled, avail, hostFit, input, exceptRng, gpuVars,
                 lastVars, bufVars, callVars>>

\* the next item of the batch arrives
RngNext(off, len) ==
  /\ rng.st \in {"failed", "read"}
  /\ rng.off # off \/ rng.len # len
  /\ rng' = [rng EXCEPT !.st = "call", !.off = off, !.len = len]
  /\ UNCHANGED <<cudaDisabled, avail, hostFit, input, exceptRng, gpuVars,
                 lastVars, bufVars, callVars>>

\* --------------------------------- one worker's scratch over its layers
\* A worker of process_layers_batch and its ProcessThreadScratch: pixels,
\* scanlines and compressed are allocated once and handed to every layer
\* the worker claims.  Geometry: one row of src_width subpixels mapped to
\* out_width pixels of `channels` bytes.  A layer is what its stream
\* decodes to: the pixels its runs write, from pixel 0 on; a stream may end
\* before the row is full.  opencl: the OpenCL backend is active; the
\* kernel call of a layer succeeds or not (runtime not ready, a CL call
\* failing), and a failure falls back to the CPU builder.
MaxScrLayers == 2
ScrGeometries ==
  { [channels |-> 1, src_width |-> 2, out_width |-> 2],
    [channels |-> 1, src_width |-> 4, out_width |-> 2],
    [channels |-> 3, src_width |-> 3, out_width |-> 1],
    [channels |-> 3, src_width |-> 2, out_width |-> 2] }
ScrValues == {1, 39}
ScrLayers(g) ==
  UNION {[0 .. (k - 1) -> ScrValues] : k \in 0 .. g.src_width}
NoScr == [st |-> "off", geo |-> [channels |-> 0, src_width |-> 0,
                                 out_width |-> 0],
          opencl |-> FALSE, layer |-> <<>>, pixels |-> <<>>,
          scanlines |-> <<>>, compressed |-> <<>>, used |-> "none",
          png |-> <<>>, area |-> 0, layers |-> 0]

\* a decoder that leaves the pixels its runs do not reach as they are
ZeroFillNever(old, src_width) == old

\* for (i < pixel_count) out_pixels[i] = 0;
ZeroFill(old, src_width) == [j \in 0 .. (src_width - 1) |-> 0]

\* decrypt_and_decode_layer into the scratch pixels: zero fill, then the
\* runs of the layer
DecodeInto(old, layer, src_width) ==
  LET z == ZeroFill(old, src_width)
  IN [j \in 0 .. (src_width - 1) |-> IF j \in DOMAIN layer THEN layer[j]
                                     ELSE z[j]]

\* compute_layer_area_stats as far as the pixel count goes
NonZero(px) == Cardinality({j \in DOMAIN px : px[j] # 0})

\* build_png_scanlines on a one-row image: filter byte 2 and the mapped row
CpuRow(g, px) ==
  LET p == [channels |-> g.channels, src_width |-> g.src_width,
            out_width |-> g.out_width, grey |-> px]
  IN <<2>> \o [c \in 1 .. BytesPerRow(p) |-> MappedByte(p, 0, c - 1)]

\* gpu_opencl_build_scanlines on a one-row image
OclRow(g, px) ==
  LET p == [channels |-> g.channels, src_width |-> g.src_width,
            out_width |-> g.out_width, grey |-> px]
  IN <<2>> \o [c \in 1 .. BytesPerRow(p) |->
                 KernelByte(p, 0, c - 1, OclPadLeft(p))]

\* compress2 into the scratch buffer: the stream (stored, one byte of
\* header) replaces the head of the buffer, the rest keeps its old bytes
DeflateInto(old, sl) ==
  LET z == <<Len(sl)>> \o sl
  IN [len |-> Len(z),
      buf |-> z \o (IF Len(old) > Len(z)
                      THEN SubSeq(old, Len(z) + 1, Len(old)) ELSE <<>>)]

ScrStep(next) ==
  /\ scr' = next
  /\ UNCHANGED <<cudaDisabled, avail, hostFit, input, exceptScr, gpuVars,
                 lastVars, bufVars, callVars>>

\* the worker claims a layer: decode and area statistics
ScrDecode(layer) ==
  /\ scr.st \in {"idle", "done"}
  /\ scr.layers < MaxScrLayers
  /\ layer \in ScrLayers(scr.geo)
  /\ LET px == DecodeInto(scr.pixels, layer, scr.geo.src_width)
     IN ScrStep([scr EXCEPT !.st = "decoded", !.layer = layer,
                            !.pixels = px, !.area = NonZero(px),
                            !.layers = @ + 1])

\* _build_scanlines_auto: the kernel when OpenCL is active, the CPU builder
\* otherwise and after a kernel failure
ScrBuild(kok) ==
  /\ scr.st = "decoded"
  /\ kok => scr.opencl
  /\ ScrStep([scr EXCEPT
                !.st = "built",
                !.used = IF kok THEN "opencl" ELSE "cpu",
                !.scanlines = IF kok THEN OclRow(scr.geo, scr.pixels)
                              ELSE CpuRow(scr.geo, scr.pixels)])

\* compress2 and build_png_from_idat: the PNG holds the first dest_len
\* bytes of the compressed scratch
ScrCompress ==
  /\ scr.st = "built"
  /\ LET d == DeflateInto(scr.compressed, scr.scanlines)
     IN ScrStep([scr EXCEPT !.st = "done", !.compressed = d.buf,
                            !.png = SubSeq(d.buf, 1, d.len)])

\* ------------------------------------------------------------ behaviours
InitProgram ==
  /\ g_gpu_enabled = 1
  /\ g_gpu_backend = 0 - 1
  /\ g_gpu_backend_preference = 0
  /\ prefArg = 0
  /\ g_last = NoLast
  /\ g_last_phased_gpu_batch_ok = 0
  /\ call = NoCall
  /\ pc = "idle"
  /\ pool = NoPool
  /\ wk = NoWorkers
  /\ work = NoWork
  /\ pixels = NoBufs
  /\ slines = NoBufs
  /\ items = NoItems
  /\ heap = NoHeap
  /\ areas = NoAreas
  /\ outs = NoOuts
  /\ ret = NotReturned
  /\ zombies = 0
  /\ ghost = NoGhost
  /\ calls = 0
  /\ reply = NoReply

InitUnits ==
  /\ rle = NoRle
  /\ area = NoArea
  /\ pngenc = NoPng
  /\ ocl = NoOcl
  /\ zip = NoZip
  /\ rec = NoRec
  /\ pwork = NoPwork
  /\ chk = NoChk
  /\ clrt = NoClrt
  /\ ana = NoAna
  /\ zl = NoZl
  /\ rng = NoRng
  /\ scr = NoScr

Init ==
  /\ cudaDisabled \in BOOLEAN
  /\ avail \in Availabilities
  /\ hostFit \in {1, NumLayers}
  /\ input \in Inputs
  /\ InitProgram
  /\ InitUnits

KernelResults == [Layers -> BOOLEAN]
ErrCodes == {0, CudaErr}

Next ==
  \/ \E tc \in 0 .. MaxThreads, ok \in BOOLEAN : CallLayer(tc, ok)
  \/ \E tc \in 0 .. MaxThreads, f \in {0, 1}, vf \in VramFits,
        ml \in MaxLayerAnswers : CallPhased(tc, f, vf, ml)
  \/ \E g \in 0 .. MaxThreads : CallRecompress(g)
  \/ \E ok \in BOOLEAN : CreateThread(ok)
  \/ JoinThread
  \/ \E t \in Threads, ok \in BOOLEAN : WorkerInit(t, ok)
  \/ \E t \in Threads : WorkerTake(t)
  \/ \E t \in Threads, kok \in BOOLEAN, err \in ErrCodes :
        WorkerProcess(t, kok, err)
  \/ \E kok \in BOOLEAN, err \in ErrCodes : SerialStep(kok, err)
  \/ \E ok \in BOOLEAN : FinishLayer(ok)
  \/ \E ok \in BOOLEAN : FinishRecompress(ok)
  \/ DecodeDone
  \/ \E bok \in BOOLEAN, kres \in KernelResults, ml \in MaxLayerAnswers,
        err \in ErrCodes : ScanlinePhase(bok, kres, ml, err)
  \/ ScanlineDone
  \/ \E ok \in BOOLEAN : CompressDone(ok)
  \/ \E e \in {0, 1} : SetEnabled(e)

Spec == Init /\ [][Next]_vars

\* The registry on its own: every combination of runtime libraries, the
\* host changing the preference and the switch and asking for the backend.
InitGpu ==
  /\ cudaDisabled \in BOOLEAN
  /\ avail \in SUBSET {1, 2, 3}
  /\ hostFit = 1
  /\ input = [i \in Layers |-> [data |-> i + 1, fault |-> "none"]]
  /\ InitProgram
  /\ InitUnits

NextGpu ==
  \/ \E code \in PrefCodes : SetPreference(code)
  \/ \E e \in {0, 1} : SetEnabled(e)
  \/ QueryBackend

SpecGpu == InitGpu /\ [][NextGpu]_vars

\* gpu_backend_available
gpu_backend_available(b) ==
  IF b = 1 THEN (IF DetectOpenCL(avail) = 1 THEN 1 ELSE 0)
  ELSE IF b = 2 THEN (IF DetectMetal(avail) = 2 THEN 1 ELSE 0)
  ELSE IF b = 3 THEN (IF DetectCuda(avail, cudaDisabled) = 3 THEN 1 ELSE 0)
  ELSE 0

\* The registry with a host that asks, and libraries that come and go.
\* gpu_acceleration_backend
GetBackend ==
  /\ pc \in {"idle", "returned"}
  /\ g_gpu_backend' = Detected
  /\ reply' = [fn |-> "backend", arg |-> 0, val |-> Detected]
  /\ UNCHANGED <<cudaDisabled, avail, hostFit, input, exceptReply,
                 g_gpu_enabled, g_gpu_backend_preference, prefArg, lastVars,
                 bufVars, callVars>>

\* gpu_acceleration_active
GetActive ==
  /\ pc \in {"idle", "returned"}
  /\ g_gpu_backend' = Detected
  /\ reply' = [fn |-> "active", arg |-> 0,
               val |-> IF gpu_acceleration_active THEN 1 ELSE 0]
  /\ UNCHANGED <<cudaDisabled, avail, hostFit, input, exceptReply,
                 g_gpu_enabled, g_gpu_backend_preference, prefArg, lastVars,
                 bufVars, callVars>>

\* gpu_backend_available(b): probes the library, touches no registry state
GetAvailable(b) ==
  /\ pc \in {"idle", "returned"}
  /\ reply' = [fn |-> "available", arg |-> b, val |-> gpu_backend_available(b)]
  /\ UNCHANGED <<cudaDisabled, avail, hostFit, input, exceptReply, gpuVars,
                 lastVars, bufVars, callVars>>

\* a runtime library is installed or removed: vs_dlopen answers differently
AvailabilityChanges(av) ==
  /\ av # avail
  /\ avail' = av
  /\ UNCHANGED <<cudaDisabled, hostFit, input, unitVars, gpuVars, lastVars,
                 bufVars, callVars>>

NextCache ==
  \/ \E code \in PrefCodes : SetPreference(code)
  \/ \E e \in {0, 1} : SetEnabled(e)
  \/ GetBackend
  \/ GetActive
  \/ \E b \in 0 .. 4 : GetAvailable(b)
  \/ \E av \in SUBSET {1, 2, 3} : AvailabilityChanges(av)

SpecCache == InitGpu /\ [][NextCache]_vars

\* One layer decoded by decrypt_and_decode_layer.
InitRle ==
  /\ cudaDisabled = TRUE
  /\ avail = {}
  /\ hostFit = 1
  /\ input = [i \in Layers |-> [data |-> i + 1, fault |-> "none"]]
  /\ InitProgram
  /\ rle \in RleInputs
  /\ area = NoArea
  /\ pngenc = NoPng
  /\ ocl = NoOcl
  /\ zip = NoZip
  /\ rec = NoRec
  /\ pwork = NoPwork
  /\ chk = NoChk
  /\ clrt = NoClrt
  /\ ana = NoAna
  /\ zl = NoZl
  /\ rng = NoRng
  /\ scr = NoScr

NextArea ==
  \/ \E ok \in BOOLEAN : AreaEnter(ok)
  \/ \E ok \in BOOLEAN : AreaScan(ok)
  \/ AreaPop
  \/ AreaIslandDone

NextRle ==
  \/ DecodeEnter
  \/ \E wrap \in BOOLEAN : DecodeStep(wrap)
  \/ DecodeReturn
  \/ LayerArea
  \/ NextArea

SpecRle == InitRle /\ [][NextRle]_vars

\* One image through compute_layer_area_stats.
InitArea ==
  /\ cudaDisabled = TRUE
  /\ avail = {}
  /\ hostFit = 1
  /\ input = [i \in Layers |-> [data |-> i + 1, fault |-> "none"]]
  /\ InitProgram
  /\ rle = NoRle
  /\ area \in AreaInputs
  /\ pngenc = NoPng
  /\ ocl = NoOcl
  /\ zip = NoZip
  /\ rec = NoRec
  /\ pwork = NoPwork
  /\ chk = NoChk
  /\ clrt = NoClrt
  /\ ana = NoAna
  /\ zl = NoZl
  /\ rng = NoRng
  /\ scr = NoScr

SpecArea == InitArea /\ [][NextArea]_vars

\* One image through build_png_scanlines.
InitPng ==
  /\ cudaDisabled = TRUE
  /\ avail = {}
  /\ hostFit = 1
  /\ input = [i \in Layers |-> [data |-> i + 1, fault |-> "none"]]
  /\ InitProgram
  /\ rle = NoRle
  /\ area = NoArea
  /\ pngenc \in PngInputs
  /\ ocl = NoOcl
  /\ zip = NoZip
  /\ rec = NoRec
  /\ pwork = NoPwork
  /\ chk = NoChk
  /\ clrt = NoClrt
  /\ ana = NoAna
  /\ zl = NoZl
  /\ rng = NoRng
  /\ scr = NoScr

NextPng ==
  \/ PngEnter
  \/ PngMapRow
  \/ PngMapDone
  \/ PngFilterRow
  \/ PngFinish

SpecPng == InitPng /\ [][NextPng]_vars

\* The same image through build_png_scanlines and
\* gpu_opencl_build_scanlines, each into its own output buffer.
OclOf(p) ==
  [NoOcl EXCEPT !.st = "call", !.grey = p.grey, !.src_width = p.src_width,
                !.height = p.height, !.out_width = p.out_width,
                !.channels = p.channels, !.out_len = p.out_len, !.out = p.out]

InitOcl ==
  /\ cudaDisabled = TRUE
  /\ avail = {1}
  /\ hostFit = 1
  /\ input = [i \in Layers |-> [data |-> i + 1, fault |-> "none"]]
  /\ InitProgram
  /\ rle = NoRle
  /\ area = NoArea
  /\ pngenc \in PngInputs
  /\ ocl = OclOf(pngenc)
  /\ zip = NoZip
  /\ rec = NoRec
  /\ pwork = NoPwork
  /\ chk = NoChk
  /\ clrt = NoClrt
  /\ ana = NoAna
  /\ zl = NoZl
  /\ rng = NoRng
  /\ scr = NoScr

NextOcl ==
  \/ NextPng
  \/ \E ready \in {0, 1}, body_ok \in {0, 1} : OclEnter(ready, body_ok)
  \/ \E cl_ok \in {0, 1} : OclKernel(cl_ok)
  \/ OclCopyRow
  \/ OclCopyDone
  \/ OclFilterRow
  \/ OclFinish

SpecOcl == InitOcl /\ [][NextOcl]_vars

\* One writer: open, add files, then close or abort.
InitZip ==
  /\ cudaDisabled = TRUE
  /\ avail = {}
  /\ hostFit = 1
  /\ input = [i \in Layers |-> [data |-> i + 1, fault |-> "none"]]
  /\ InitProgram
  /\ rle = NoRle
  /\ area = NoArea
  /\ pngenc = NoPng
  /\ ocl = NoOcl
  /\ zip \in ZipInputs
  /\ rec = NoRec
  /\ pwork = NoPwork
  /\ chk = NoChk
  /\ clrt = NoClrt
  /\ ana = NoAna
  /\ zl = NoZl
  /\ rng = NoRng
  /\ scr = NoScr

NextZip ==
  \/ \E ok \in {0, 1} : ZipOpen(ok)
  \/ \E handle \in {0, 1}, name \in ZipNames, data \in ZipBuffers,
        data_len \in ZipLens, io \in ZipIo :
        ZipAdd(handle, name, data, data_len, io)
  \/ \E io \in {"ok", "central", "end"} : ZipClose(io)
  \/ ZipAbort

SpecZip == InitZip /\ [][NextZip]_vars

\* One PNG through recompress_png_idat, and its output through it again.
InitRec ==
  /\ cudaDisabled = TRUE
  /\ avail = {}
  /\ hostFit = 1
  /\ input = [i \in Layers |-> [data |-> i + 1, fault |-> "none"]]
  /\ InitProgram
  /\ rle = NoRle
  /\ area = NoArea
  /\ pngenc = NoPng
  /\ ocl = NoOcl
  /\ zip = NoZip
  /\ rec \in RecInputs
  /\ pwork = NoPwork
  /\ chk = NoChk
  /\ clrt = NoClrt
  /\ ana = NoAna
  /\ zl = NoZl
  /\ rng = NoRng
  /\ scr = NoScr

NextRec ==
  \/ \E zlib_available \in {0, 1} : RecEnter(zlib_available)
  \/ \E wraps \in {0, 1}, realloc_ok \in {0, 1} : RecChunk(wraps, realloc_ok)
  \/ RecLoopEnd
  \/ \E mem_ok \in {0, 1} : RecFinish(mem_ok)
  \/ \E level \in RecLevels : RecAgain(level)

SpecRec == InitRec /\ [][NextRec]_vars

\* The claim protocol on its own: a pool of every kind, 1 .. MaxCount
\* items, 1 .. MaxWorkers threads.
PworkInputs ==
  {[NoPwork EXCEPT !.st = "ready", !.kind = k, !.count = c, !.threads = n] :
     k \in PoolKinds, c \in 1 .. MaxCount, n \in 1 .. MaxWorkers}

InitPwork ==
  /\ cudaDisabled = TRUE
  /\ avail = {}
  /\ hostFit = 1
  /\ input = [i \in Layers |-> [data |-> i + 1, fault |-> "none"]]
  /\ InitProgram
  /\ rle = NoRle
  /\ area = NoArea
  /\ pngenc = NoPng
  /\ ocl = NoOcl
  /\ zip = NoZip
  /\ rec = NoRec
  /\ pwork \in PworkInputs
  /\ chk = NoChk
  /\ clrt = NoClrt
  /\ ana = NoAna
  /\ zl = NoZl
  /\ rng = NoRng
  /\ scr = NoScr

NextPwork ==
  \/ \E ok \in BOOLEAN : PwRun(ok)
  \/ \E t \in Workers, ok \in BOOLEAN : PwInit(t, ok)
  \/ \E t \in Workers : PwTake(t)
  \/ \E t \in Workers, ok \in BOOLEAN : PwProcess(t, ok)
  \/ \E ok \in BOOLEAN : PwSerial(ok)
  \/ \E ok \in BOOLEAN : PwCreate(ok)
  \/ PwJoinThread
  \/ \E ok \in BOOLEAN : PwReturn(ok)

SpecPwork == InitPwork /\ [][NextPwork]_vars

\* Chunking on its own: 1 .. MaxBatch layers of three sizes (a 2 x 2 test
\* layer, and two large ones of which 7 and 4 fit the host budget), GPU
\* batch requested or not, no backend / OpenCL / CUDA active.
ChkDims ==
  {[src_width |-> 2, height |-> 2, out_width |-> 2, channels |-> 1],
   [src_width |-> 32768, height |-> 16384, out_width |-> 16384,
    channels |-> 1],
   [src_width |-> 16384, height |-> 16384, out_width |-> 16384,
    channels |-> 3]}
ChkBackends == {<<0, 0>>, <<1, 1>>, <<1, 3>>, <<0, 3>>}
ChkInputs ==
  {[NoChk EXCEPT !.st = "ready", !.count = c, !.dims = d,
                 !.use_gpu_batch = u, !.active = b[1], !.backend = b[2]] :
     c \in 1 .. MaxBatch, d \in ChkDims, u \in {0, 1}, b \in ChkBackends}

\* device memory the library reports: none, 256 MiB, 4 GiB, 24 GiB
VramAnswers == {<<0, 0>>, <<256, 0>>, <<4096, 0>>, <<24576, 0>>}
\* layer counts the library reports
LayerAnswers == {0 - 1, 0, 3, 8, 9}

InitChk ==
  /\ cudaDisabled = TRUE
  /\ avail = {}
  /\ hostFit = 1
  /\ input = [i \in Layers |-> [data |-> i + 1, fault |-> "none"]]
  /\ InitProgram
  /\ rle = NoRle
  /\ area = NoArea
  /\ pngenc = NoPng
  /\ ocl = NoOcl
  /\ zip = NoZip
  /\ rec = NoRec
  /\ pwork = NoPwork
  /\ chk \in ChkInputs
  /\ clrt = NoClrt
  /\ ana = NoAna
  /\ zl = NoZl
  /\ rng = NoRng
  /\ scr = NoScr

NextChk ==
  \/ \E v \in VramAnswers, ml \in LayerAnswers : ChkSize(v, ml)
  \/ \E ml \in LayerAnswers, b \in BOOLEAN, ok \in BOOLEAN :
        ChkChunk(ml, b, ok)
  \/ \E ok \in BOOLEAN : ChkDone(ok)

SpecChk == InitChk /\ [][NextChk]_vars

\* The OpenCL runtime on its own: MaxCallers workers, each calling the
\* builder once, in every interleaving.
InitClrt ==
  /\ cudaDisabled = TRUE
  /\ avail = {1}
  /\ hostFit = 1
  /\ input = [i \in Layers |-> [data |-> i + 1, fault |-> "none"]]
  /\ InitProgram
  /\ rle = NoRle
  /\ area = NoArea
  /\ pngenc = NoPng
  /\ ocl = NoOcl
  /\ zip = NoZip
  /\ rec = NoRec
  /\ pwork = NoPwork
  /\ chk = NoChk
  /\ clrt \in {[NoClrt EXCEPT !.at = [t \in Callers |->
                                         IF t \in S THEN "idle" ELSE "off"]] :
                 S \in SUBSET Callers}
  /\ ana = NoAna
  /\ zl = NoZl
  /\ rng = NoRng
  /\ scr = NoScr

NextClrt ==
  \/ \E t \in Callers : ClCall(t)
  \/ \E t \in Callers : ClCheck(t)
  \/ \E t \in Callers, reset \in BOOLEAN : ClMutexInit(t, reset)
  \/ \E t \in Callers : ClLock(t)
  \/ \E t \in Callers : ClEntered(t)
  \/ \E t \in Callers : ClSet(t)
  \/ \E t \in Callers, ok \in BOOLEAN : ClCreate(t, ok)
  \/ \E t \in Callers : ClUnlock(t)
  \/ \E t \in Callers, ok \in BOOLEAN : ClUse(t, ok)

SpecClrt == InitClrt /\ [][NextClrt]_vars

\* ----- the claim protocol under fair scheduling
\* pthread_join on a handle pthread_create wrote
PwJoinWritten == PwJoinThread /\ pwork.written[pwork.t]

\* The caller and every created thread keep running (the scheduler is fair
\* to each thread, and a mutex held over a bounded critical section is
\* handed on).  Nothing is promised about pthread_join on a handle that
\* was never written: it is undefined and need not return.
FairPwork ==
  /\ WF_vars(\E ok \in BOOLEAN : PwRun(ok))
  /\ WF_vars(\E ok \in BOOLEAN : PwCreate(ok))
  /\ WF_vars(\E ok \in BOOLEAN : PwSerial(ok))
  /\ WF_vars(PwJoinWritten)
  /\ WF_vars(\E ok \in BOOLEAN : PwReturn(ok))
  /\ \A t \in Workers :
       /\ WF_vars(\E ok \in BOOLEAN : PwInit(t, ok))
       /\ WF_vars(PwTake(t))
       /\ WF_vars(\E ok \in BOOLEAN : PwProcess(t, ok))

SpecPworkFair == InitPwork /\ [][NextPwork]_vars /\ FairPwork

\* The analytics readout on its own: up to MaxStatCalls per-layer batches
\* of 1..MaxStatThreads threads, the switch flipped and the readout called
\* between them.
InitAna ==
  /\ cudaDisabled = TRUE
  /\ avail = {}
  /\ hostFit = 1
  /\ input = [i \in Layers |-> [data |-> i + 1, fault |-> "none"]]
  /\ InitProgram
  /\ rle = NoRle
  /\ area = NoArea
  /\ pngenc = NoPng
  /\ ocl = NoOcl
  /\ zip = NoZip
  /\ rec = NoRec
  /\ pwork = NoPwork
  /\ chk = NoChk
  /\ clrt = NoClrt
  /\ ana = NoAna
  /\ zl = NoZl
  /\ rng = NoRng
  /\ scr = NoScr

NextAna ==
  \/ \E e \in {0, 1} : AnaSet(e)
  \/ \E threads \in 1 .. MaxStatThreads, how \in {"early", "run", "done"},
        ok \in BOOLEAN : AnaBatch(threads, how, ok)
  \/ \E m \in 0 .. (MaxStatThreads + 1) : AnaRead(m)

SpecAna == InitAna /\ [][NextAna]_vars

\* The provider load on its own: any set of the MaxZlCallers workers, a
\* provider that loads or not, in a process where recompress_png_idat has
\* run before (loaded = 1) or not.
ZlInputs ==
  { [NoZl EXCEPT !.loadable = l, !.pre = pre,
                 !.loaded = IF pre THEN 1 ELSE 0,
                 !.available = IF pre /\ l THEN 1 ELSE 0,
                 !.at = [t \in ZlCallers |-> IF t \in S THEN "idle" ELSE "off"]] :
      l \in BOOLEAN, pre \in BOOLEAN, S \in SUBSET ZlCallers }

InitZl ==
  /\ cudaDisabled = TRUE
  /\ avail = {}
  /\ hostFit = 1
  /\ input = [i \in Layers |-> [data |-> i + 1, fault |-> "none"]]
  /\ InitProgram
  /\ rle = NoRle
  /\ area = NoArea
  /\ pngenc = NoPng
  /\ ocl = NoOcl
  /\ zip = NoZip
  /\ rec = NoRec
  /\ pwork = NoPwork
  /\ chk = NoChk
  /\ clrt = NoClrt
  /\ ana = NoAna
  /\ zl \in ZlInputs
  /\ rng = NoRng
  /\ scr = NoScr

NextZl ==
  \/ \E t \in ZlCallers : ZlCall(t)
  \/ \E t \in ZlCallers : ZlCheck(t)
  \/ \E t \in ZlCallers : ZlSet(t)
  \/ \E t \in ZlCallers : ZlLoad(t)
  \/ \E t \in ZlCallers : ZlTest(t)
  \/ \E t \in ZlCallers, ok \in BOOLEAN : ZlWork(t, ok)

SpecZl == InitZl /\ [][NextZl]_vars

\* The range test on its own: offsets and lengths around 0, around the
\* blob length and around INT32_MAX, for each of the three functions.
RngOffsets == {0 - 1, 0, 1, 5, 6, Int32Max - 5, Int32Max - 1, Int32Max}
RngLengths == {0 - 1, 0, 1, 5, 6, Int32Max - 5, Int32Max - 1, Int32Max}
RngBlobLens == {1, 10, Int32Max}
RngInputs ==
  { [st |-> "call", fn |-> f, off |-> o, len |-> l, input_blob_len |-> b] :
      f \in {"layer", "decode", "recompress"},
      o \in RngOffsets, l \in RngLengths, b \in RngBlobLens }

InitRng ==
  /\ cudaDisabled = TRUE
  /\ avail = {}
  /\ hostFit = 1
  /\ input = [i \in Layers |-> [data |-> i + 1, fault |-> "none"]]
  /\ InitProgram
  /\ rle = NoRle
  /\ area = NoArea
  /\ pngenc = NoPng
  /\ ocl = NoOcl
  /\ zip = NoZip
  /\ rec = NoRec
  /\ pwork = NoPwork
  /\ chk = NoChk
  /\ clrt = NoClrt
  /\ ana = NoAna
  /\ zl = NoZl
  /\ rng \in RngInputs
  /\ scr = NoScr

NextRng ==
  \/ \E wrapped \in BOOLEAN, taken \in BOOLEAN : RngCheck(wrapped, taken)
  \/ \E o \in RngOffsets, l \in RngLengths : RngNext(o, l)

SpecRng == InitRng /\ [][NextRng]_vars

\* The scratch on its own: a worker with malloc'ed (arbitrary) scratch
\* contents processes up to MaxScrLayers layers of one geometry.
ScrGarbage(n) == {[j \in 0 .. (n - 1) |-> v] : v \in {0, 7}}
ScrInputs ==
  UNION { { [NoScr EXCEPT !.st = "idle", !.geo = g, !.opencl = o,
                          !.pixels = px,
                          !.scanlines = [c \in 1 .. (1 + g.out_width * g.channels)
                                           |-> s],
                          !.compressed = [c \in 1 .. (8 + g.out_width * g.channels)
                                            |-> s]] :
              o \in BOOLEAN, px \in ScrGarbage(g.src_width), s \in {0, 7} } :
          g \in ScrGeometries }

InitScr ==
  /\ cudaDisabled = TRUE
  /\ avail = {}
  /\ hostFit = 1
  /\ input = [i \in Layers |-> [data |-> i + 1, fault |-> "none"]]
  /\ InitProgram
  /\ rle = NoRle
  /\ area = NoArea
  /\ pngenc = NoPng
  /\ ocl = NoOcl
  /\ zip = NoZip
  /\ rec = NoRec
  /\ pwork = NoPwork
  /\ chk = NoChk
  /\ clrt = NoClrt
  /\ ana = NoAna
  /\ zl = NoZl
  /\ rng = NoRng
  /\ scr \in ScrInputs

NextScr ==
  \/ \E g \in ScrGeometries : \E layer \in ScrLayers(g) : ScrDecode(layer)
  \/ \E kok \in BOOLEAN : ScrBuild(kok)
  \/ ScrCompress

SpecScr == InitScr /\ [][NextScr]_vars

\* ------------------------------------------------------------ properties
Returned(fn) == pc = "returned" /\ call.fn = fn
NoFaults == \A i \in Layers : input[i].fault = "none"

\* C10: the selected backend is the preferred one when it is non-auto and
\* available, else the first available of Metal, CUDA, OpenCL, else none; a
\* preference code outside 0..3 counts as auto.
C10_Selection ==
  LET p == IF prefArg \in 0 .. 3 THEN prefArg ELSE 0
      A == {b \in 1 .. 3 : gpu_backend_available(b) = 1}
      first == IF 2 \in A THEN 2 ELSE IF 3 \in A THEN 3
               ELSE IF 1 \in A THEN 1 ELSE 0
  IN g_gpu_backend >= 0 =>
       g_gpu_backend = (IF p # 0 /\ p \in A THEN p ELSE first)

\* OpenCL selected by preference although Metal and CUDA are available
C10_Witness ==
  /\ g_gpu_backend = 1
  /\ prefArg = 1
  /\ gpu_backend_available(2) = 1
  /\ gpu_backend_available(3) = 1

\* the PNG of layer i built on the CPU alone, and of recompressed item i
CpuPng(i) ==
  BuildPngFromIdat(Compress(BuildScanlinesCpu(
    Decode(input[i].data, LayerIndexBase + i))))
ItemPng(fn, i) == IF fn = "recompress" THEN RecompressPng(input[i].data)
                  ELSE CpuPng(i)
\* the outputs of a pure-CPU run of the layer pipelines
CpuOutputs ==
  Assemble([i \in Layers |-> CpuPng(i)],
           [i \in Layers |-> AreaOf(Decode(input[i].data, LayerIndexBase + i))])

\* C1: whenever a batch call returned 1, the offsets start at 0 and are
\* cumulative, the lengths sum to out_blob_len, and slice i of the blob is
\* the PNG of input item i.
C1_Concatenation ==
  (pc = "returned" /\ ret = 1) =>
    /\ outs.offsets[0] = 0
    /\ \A i \in Layers : i + 1 \in Layers =>
         outs.offsets[i + 1] = outs.offsets[i] + outs.lengths[i]
    /\ outs.offsets[NumLayers - 1] + outs.lengths[NumLayers - 1] = outs.blob_len
    /\ outs.blob_len = Len(outs.blob)
    /\ \A i \in Layers :
         SubSeq(outs.blob, outs.offsets[i] + 1,
                outs.offsets[i] + outs.lengths[i]) = ItemPng(call.fn, i)

\* C2: when a layer of a per-layer or phased call hit a non-GPU failure, the
\* call returned 0, no PNG buffer of the call is left allocated or was freed
\* twice, and no output parameter was written.
C2_FailureReleasesAll ==
  (pc = "returned" /\ call.fn \in {"layer", "phased"} /\ ghost.layerFail) =>
    /\ ret = 0
    /\ \A i \in Layers : heap[i] \notin {"live", "double"}
    /\ outs = NoOuts

\* C3: a per-layer call in which the single-layer kernel ran and failed for
\* every layer (no faulty layer, no allocation or thread-creation failure)
\* returned 1 with the pure-CPU outputs, and the readouts show attempts > 0,
\* no success, and as many fallbacks as attempts.
C3_GpuFallback ==
  (Returned("layer") /\ NoFaults /\ ~ghost.envFail
     /\ ghost.kcalls > 0 /\ ghost.koks = 0) =>
    /\ ret = 1
    /\ outs = CpuOutputs
    /\ g_last.gpu_attempts = ghost.kcalls
    /\ g_last.gpu_attempts > 0
    /\ g_last.gpu_successes = 0
    /\ g_last.gpu_fallbacks = g_last.gpu_attempts

\* two worker threads, every layer's kernel call failed, the call returned 1
C3_Witness ==
  /\ Returned("layer")
  /\ call.threads = 2
  /\ ~ghost.envFail
  /\ ghost.kcalls = NumLayers
  /\ ghost.koks = 0
  /\ ret = 1
  /\ g_last.gpu_fallbacks = NumLayers

C6_AllWorkersJoined ==
  /\ zombies = 0
  /\ pc = "returned" => LiveCount(wk) = 0

\* C7: after a per-layer call, successful or failed on a layer, the
\* readouts are those of that call.
C7_ReadoutsOfThisCall ==
  (Returned("layer") /\ ~ghost.envFail) =>
    g_last = [backend |-> work.used_gpu,
              gpu_attempts |-> work.gpu_attempts,
              gpu_successes |-> work.gpu_successes,
              gpu_fallbacks |-> work.gpu_fallbacks,
              cuda_error |-> work.last_cuda_error,
              thread_count |-> call.threads]

\* C8: after a phased call the mega-batch flag is 1 only if a mega-batch
\* kernel call of that call succeeded.
C8_BatchOkMeansMegaBatch ==
  Returned("phased") => (g_last_phased_gpu_batch_ok = 1 => ghost.boks > 0)

\* C9: after a phased call the thread-count readout is the number of
\* threads that call used.
C9_PhasedThreadCount ==
  Returned("phased") => g_last.thread_count = call.threads

\* C11: once detected, the backend stays what it is until
\* set_gpu_backend_preference is called, whatever the libraries do and
\* whichever other registry call is made, and gpu_acceleration_backend
\* returns it; a query that finds the cache invalidated selects afresh from
\* the libraries present at that moment; gpu_acceleration_active returns 1
\* exactly when the enabled flag is set and the cached backend is not 0.
C11_CachedUntilPreference ==
  [][LET setPref == \E code \in PrefCodes : SetPreference(code)
         fresh == SelectBackend(g_gpu_backend_preference, avail, cudaDisabled)
     IN /\ (g_gpu_backend >= 0 /\ ~setPref) => (g_gpu_backend' = g_gpu_backend)
        /\ setPref => (g_gpu_backend' < 0)
        /\ GetBackend =>
             (/\ reply'.val = g_gpu_backend'
              /\ reply'.val = (IF g_gpu_backend >= 0 THEN g_gpu_backend
                               ELSE fresh))
        /\ GetActive =>
             (/\ g_gpu_backend' >= 0
              /\ reply'.val \in {0, 1}
              /\ (reply'.val = 1) <=>
                   (g_gpu_enabled' # 0 /\ g_gpu_backend' # 0))
    ]_vars

\* gpu_acceleration_backend answered with a cached backend that a fresh
\* detection would no longer select
C11_Witness ==
  /\ reply.fn = "backend"
  /\ g_gpu_backend >= 0
  /\ reply.val = g_gpu_backend
  /\ g_gpu_backend # SelectBackend(g_gpu_backend_preference, avail, cudaDisabled)

\* The CTB grammar read off a byte sequence b from position i: how many
\* bytes the token at i takes, its run length and its pixel value.
TokBytes(b, i) ==
  IF b[i] < 128 THEN 1
  ELSE IF i + 1 > Len(b) THEN 2
  ELSE IF b[i + 1] < 128 THEN 2
  ELSE IF b[i + 1] < 192 THEN 3
  ELSE IF b[i + 1] < 224 THEN 4
  ELSE IF b[i + 1] < 240 THEN 5
  ELSE 2
TokLength(b, i) ==
  LET s0 == b[i + 1]
  IN IF b[i] < 128 THEN 1
     ELSE IF s0 < 128 THEN s0
     ELSE IF s0 < 192 THEN ((s0 - 128) * 256) + b[i + 2]
     ELSE IF s0 < 224 THEN ((s0 - 192) * 65536) + (b[i + 2] * 256) + b[i + 3]
     ELSE IF s0 < 240 THEN ((s0 - 224) * 16777216) + (b[i + 2] * 65536)
                           + (b[i + 3] * 256) + b[i + 4]
     ELSE 1
TokValue(b, i) ==
  LET c == IF b[i] < 128 THEN b[i] ELSE b[i] - 128
  IN IF c = 0 THEN 0 ELSE (2 * c) + 1

\* The runs of non-zero pixels that the complete tokens of b, expanded left
\* to right from pixel `start`, put into a buffer of cnt pixels.
RECURSIVE GrammarRuns(_, _, _, _)
GrammarRuns(b, i, start, cnt) ==
  IF i > Len(b) \/ start >= cnt THEN <<>>
  ELSE IF i + TokBytes(b, i) - 1 > Len(b) THEN <<>>
  ELSE LET len == TokLength(b, i)
           v == TokValue(b, i)
           end == IF len >= cnt - start THEN cnt ELSE start + len
           rest == GrammarRuns(b, i + TokBytes(b, i), end, cnt)
       IN IF v # 0 /\ len > 0
          THEN <<[from |-> start, to |-> end - 1, val |-> v]>> \o rest
          ELSE rest

RleReturned == rle.st = "ret" /\ rle.data_len > 0 /\ rle.pixel_count > 0

\* C12: a call with non-empty input and pixel_count > 0 ends after at most
\* data_len loop iterations and returns 1; every write lies inside
\* out_pixels[0 .. pixel_count-1] and inside the run of one completely read
\* token, so every other pixel keeps the 0 of the zero fill.
C12_TolerantDecode ==
  RleReturned =>
    LET runs == GrammarRuns(rle.plain, 1, 0, rle.pixel_count)
    IN /\ rle.ret = 1
       /\ rle.iter <= rle.data_len
       /\ \A k \in 1 .. Len(rle.out) :
            /\ 0 <= rle.out[k].from
            /\ rle.out[k].to < rle.pixel_count
            /\ \E j \in 1 .. Len(runs) :
                 /\ runs[j].from <= rle.out[k].from
                 /\ rle.out[k].to <= runs[j].to

\* C13: at every loop boundary and at the return, the non-zero pixels of
\* the buffer are exactly the runs the grammar gives for the bytes read so
\* far, in order, and every one of their values is odd.
C13_Grammar ==
  (rle.st \in {"run", "ret"} /\ rle.data_len > 0 /\ rle.pixel_count > 0) =>
    /\ rle.out = GrammarRuns(rle.plain, 1, 0, rle.pixel_count)
    /\ \A k \in 1 .. Len(rle.out) : rle.out[k].val % 2 = 1

\* byte k (from 0) of the key stream: byte k mod 4 of key0 + (k div 4) * init
KeyStream(key, li, k) ==
  LET init == Add32(Mul32(U32(key), InitMul), InitAdd)
      key0 == Mul32(Add32(Mul32(U32(li), KeyMul), KeyAdd), init)
  IN Add32(key0, Mul32(U32(k \div 4), init))[(k % 4) + 1]

\* C14: with encryption_key # 0 the k-th byte read is the k-th input byte
\* XORed with byte k of the key stream; with encryption_key = 0 the bytes
\* read are the input bytes and the cipher state never leaves zero, whatever
\* layer_index is.
C14_KeyStream ==
  (rle.st \in {"run", "ret"} /\ rle.data_len > 0 /\ rle.pixel_count > 0) =>
    /\ Len(rle.plain) = rle.n
    /\ \A k \in 0 .. (rle.n - 1) :
         rle.plain[k + 1] =
           (IF rle.encryption_key # 0
            THEN Xor8(rle.data[k + 1],
                      KeyStream(rle.encryption_key, rle.layer_index, k))
            ELSE rle.data[k + 1])
    /\ rle.encryption_key = 0 =>
         (rle.key = Zero32 /\ rle.init = Zero32 /\ rle.kbi = 0)

\* a layer was decrypted past the second key advance
C14_Witness ==
  /\ rle.st = "ret"
  /\ rle.ret = 1
  /\ rle.encryption_key # 0
  /\ rle.n >= 9
  /\ rle.kbi # 0

\* a huge buffer, nine maximal runs and one more pixel: returned
C12_Witness ==
  /\ RleReturned
  /\ rle.pixel_count = Int32Max
  /\ rle.iter >= 10

\* ----- what the area record should say about an image
SetMin(S) == CHOOSE i \in S : \A j \in S : i <= j
SetMax(S) == CHOOSE i \in S : \A j \in S : i >= j
Xs(S, w) == {i % w : i \in S}
Ys(S, w) == {i \div w : i \in S}
Abs(d) == IF d < 0 THEN 0 - d ELSE d
\* pixels i and j of an image of width w touch by an edge or a corner
Touch(i, j, w) ==
  /\ i # j
  /\ Abs((i % w) - (j % w)) <= 1
  /\ Abs((i \div w) - (j \div w)) <= 1
\* the 8-connected component of S around the set c
RECURSIVE Grow(_, _, _)
Grow(c, S, w) ==
  LET more == {j \in S \ c : \E i \in c : Touch(i, j, w)}
  IN IF more = {} THEN c ELSE Grow(c \cup more, S, w)
RECURSIVE Components(_, _)
Components(S, w) ==
  IF S = {} THEN {}
  ELSE LET c == Grow({SetMin(S)}, S, w)
       IN {c} \cup Components(S \ c, w)
RECURSIVE SumPixels(_)
SumPixels(isl) == IF isl = <<>> THEN 0
                  ELSE Head(isl).pixels + SumPixels(Tail(isl))

AreaReturned == area.st = "ret" /\ area.ret = 1

\* C16: a returned record has area_count = 0 exactly when no pixel is
\* non-zero, and then every field is 0; otherwise area_count >= 1 and
\* (min_x, min_y)-(max_x, max_y) is the smallest box around the non-zero
\* pixels.
C16_EmptyAndBounds ==
  AreaReturned =>
    LET r == area.result
        S == area.solid
    IN /\ (r.area_count = 0) <=> (S = {})
       /\ r.area_count = 0 => r = NoResult
       /\ S # {} =>
            (/\ r.area_count >= 1
             /\ r.min_x = SetMin(Xs(S, area.width))
             /\ r.max_x = SetMax(Xs(S, area.width))
             /\ r.min_y = SetMin(Ys(S, area.width))
             /\ r.max_y = SetMax(Ys(S, area.width)))

\* a returned record of an image with two islands that do not fill their box
C16_Witness ==
  /\ AreaReturned
  /\ area.result.area_count = 2
  /\ area.result.min_x = 0
  /\ area.result.max_x = 2
  /\ area.result.max_y = 2
  /\ Cardinality(area.solid) = 3

\* C17: the islands counted are the 8-connected components of the non-zero
\* pixels: as many, the same pixel sets, each pixel in exactly one island,
\* and the island sizes add up to the number of non-zero pixels.
C17_EightConnected ==
  AreaReturned =>
    LET isl == area.islands
        comps == Components(area.solid, area.width)
    IN /\ area.result.area_count = Cardinality(comps)
       /\ Len(isl) = area.result.area_count
       /\ {isl[k].cells : k \in 1 .. Len(isl)} = comps
       /\ \A k \in 1 .. Len(isl) : isl[k].pixels = Cardinality(isl[k].cells)
       /\ \A k, m \in 1 .. Len(isl) :
            k # m => isl[k].cells \cap isl[m].cells = {}
       /\ SumPixels(isl) = Cardinality(area.solid)
       /\ area.result.total_solid_area = Cardinality(area.solid)

IsScenario(d) ==
  /\ rle.data = d
  /\ rle.pixel_count = 10000
  /\ rle.width = 100
  /\ rle.encryption_key = 0

\* C15 as stated: the stream [0x01, 0x80, 0x27, 0x10] decoded into a
\* 100 x 100 layer leaves every pixel 0, and the area record is all zeros.
C15_EmptyLayer ==
  IsScenario(ScenarioS1) =>
    /\ rle.st = "ret" => (rle.ret = 1 /\ rle.out = <<>>)
    /\ AreaReturned => area.result = NoResult

\* C15, amended: that stream is a pixel of value 3, a run of 39 zeros and a
\* pixel of value 33, so pixels 0 and 40 are set and the record counts two
\* islands of one pixel in the box (0,0)-(40,0); the single run of 10 000
\* zeros is [0x80, 0xA7, 0x10], which gives the empty layer and the zero
\* record.
C15_ScenarioAsDecoded ==
  /\ IsScenario(ScenarioS1) =>
       /\ rle.st = "ret" =>
            /\ rle.ret = 1
            /\ rle.out = << [from |-> 0, to |-> 0, val |-> 3],
                            [from |-> 40, to |-> 40, val |-> 33] >>
       /\ AreaReturned =>
            area.result = [total_solid_area |-> 2, largest_area |-> 1,
                           smallest_area |-> 1, min_x |-> 0, min_y |-> 0,
                           max_x |-> 40, max_y |-> 0, area_count |-> 2]
  /\ IsScenario(ZeroRun10000) =>
       /\ rle.st = "ret" => (rle.ret = 1 /\ rle.out = <<>> /\ rle.pixel = 10000)
       /\ AreaReturned => area.result = NoResult

\* the scenario stream decoded and its area record returned
C15_Witness ==
  /\ IsScenario(ScenarioS1)
  /\ rle.st = "ret"
  /\ AreaReturned
  /\ area.width = 100
  /\ area.height = 100

\* ----- what the scanlines should hold
PngMapped == \/ pngenc.st = "filter"
             \/ (pngenc.st = "ret" /\ pngenc.ret = 1)
Zeros(k) == [j \in 1 .. k |-> 0]
\* source subpixel i of row y, 0 outside the row
Grey(y, i) ==
  IF i >= 0 /\ i < pngenc.src_width
  THEN pngenc.grey[(y * pngenc.src_width) + i] ELSE 0
\* rows of the source and of the mapped image, as sequences
GreyRow(y) == [j \in 1 .. pngenc.src_width |-> Grey(y, j - 1)]
RawAt(y, c) == pngenc.raw[(y * ScanlineSize(pngenc)) + 1 + c]
OutAt(y, c) == pngenc.out[(y * ScanlineSize(pngenc)) + 1 + c]
RawRow(y) == [j \in 1 .. BytesPerRow(pngenc) |-> RawAt(y, j - 1)]
Rows == 0 .. (pngenc.height - 1)
Cols == 0 .. (pngenc.out_width - 1)

\* C18: with channels = 3 the mapped row holds, for output pixel x, the
\* source subpixels 3x - pad_left + k, k = 0,1,2, with pad_left =
\* max(0, (3*out_width - src_width)/2) and 0 outside the source row; so a
\* narrow source row sits between pad_left zeros and the remaining zeros,
\* the left ones fewer by at most one, and a wide one is cut on the right.
C18_RgbMapping ==
  (PngMapped /\ pngenc.channels = 3) =>
    LET req == 3 * pngenc.out_width
        tot == req - pngenc.src_width
        pad_left == IF tot > 0 THEN tot \div 2 ELSE 0
    IN /\ \A y \in Rows, x \in Cols, k \in 0 .. 2 :
            RawAt(y, (3 * x) + k) = Grey(y, ((3 * x) - pad_left) + k)
       /\ \A y \in Rows :
            IF pngenc.src_width < req
            THEN /\ RawRow(y) = Zeros(pad_left) \o GreyRow(y)
                                  \o Zeros(tot - pad_left)
                 /\ pad_left <= tot - pad_left
                 /\ tot - pad_left <= pad_left + 1
            ELSE RawRow(y) = SubSeq(GreyRow(y), 1, req)

\* src_width 4, out_width 3: the row (0,0,A), (B,C,D), (0,0,0) was returned
C18_Witness ==
  /\ pngenc.st = "ret"
  /\ pngenc.ret = 1
  /\ pngenc.channels = 3
  /\ pngenc.src_width = 4
  /\ pngenc.out_width = 3
  /\ RawRow(0) = <<0, 0>> \o GreyRow(0) \o <<0, 0, 0>>
  /\ \A j \in 1 .. 4 : GreyRow(0)[j] # 0

\* the greyscale value of output pixel x of row y for a given left padding
GreyValue(y, x, pad_left) ==
  (Grey(y, (2 * x) - pad_left) + Grey(y, ((2 * x) - pad_left) + 1)) \div 2

\* C19 as stated: with channels = 1 the padding comes from req = out_width,
\* pad_left = max(0, (out_width - src_width)/2), and output pixel x is
\* (a + b) >> 1 of the subpixels at 2x - pad_left and 2x - pad_left + 1.
C19_GreyPadFromReq ==
  (PngMapped /\ pngenc.channels = 1) =>
    LET tot == pngenc.out_width - pngenc.src_width
        pad_left == IF tot > 0 THEN tot \div 2 ELSE 0
    IN \A y \in Rows, x \in Cols : RawAt(y, x) = GreyValue(y, x, pad_left)

\* C19, what the CPU path computes: the padding comes from the 2 * out_width
\* subpixels the greyscale row consumes,
\* pad_left = max(0, (2*out_width - src_width)/2).
C19_GreyPadFromTwo ==
  (PngMapped /\ pngenc.channels = 1) =>
    LET tot == (2 * pngenc.out_width) - pngenc.src_width
        pad_left == IF tot > 0 THEN tot \div 2 ELSE 0
    IN \A y \in Rows, x \in Cols : RawAt(y, x) = GreyValue(y, x, pad_left)

\* a returned greyscale image whose only non-zero pixel is the middle one
C19_Witness ==
  /\ pngenc.st = "ret"
  /\ pngenc.ret = 1
  /\ pngenc.channels = 1
  /\ pngenc.src_width = 2
  /\ pngenc.out_width = 3
  /\ RawRow(0) = <<0, (Grey(0, 0) + Grey(0, 1)) \div 2, 0>>
  /\ RawAt(0, 1) # 0

\* the Up filter undone from the top: row y of the reconstruction
RECURSIVE Unfiltered(_)
Unfiltered(y) ==
  IF y = 0 THEN [j \in 1 .. BytesPerRow(pngenc) |-> OutAt(0, j - 1)]
  ELSE LET up == Unfiltered(y - 1)
       IN [j \in 1 .. BytesPerRow(pngenc) |-> (OutAt(y, j - 1) + up[j]) % 256]

\* C20: after a return of 1 every filter byte is 2, row 0 holds the mapped
\* row 0, every later row holds the differences to the mapped row above
\* mod 256, and undoing the Up filter from the top gives the mapped image.
C20_UpFilter ==
  (pngenc.st = "ret" /\ pngenc.ret = 1) =>
    /\ \A y \in Rows : pngenc.out[y * ScanlineSize(pngenc)] = 2
    /\ \A c \in 0 .. (BytesPerRow(pngenc) - 1) : OutAt(0, c) = RawAt(0, c)
    /\ \A y \in Rows, c \in 0 .. (BytesPerRow(pngenc) - 1) :
         y >= 1 => OutAt(y, c) = ((RawAt(y, c) - RawAt(y - 1, c)) + 256) % 256
    /\ \A y \in Rows : Unfiltered(y) = RawRow(y)

\* three rows returned, with a difference that wrapped around
C20_Witness ==
  /\ pngenc.st = "ret"
  /\ pngenc.ret = 1
  /\ pngenc.height = 3
  /\ \E c \in 0 .. (BytesPerRow(pngenc) - 1) :
       /\ RawAt(2, c) < RawAt(1, c)
       /\ RawAt(1, c) # RawAt(0, c)
       /\ OutAt(2, c) = (RawAt(2, c) - RawAt(1, c)) + 256

\* ----- C21
OclReturned == ocl.st = "ret" /\ ocl.ret = 1
CpuReturned == pngenc.st = "ret" /\ pngenc.ret = 1

\* C21: whenever gpu_opencl_build_scanlines returns 1, its output buffer is
\* byte for byte the one build_png_scanlines fills for the same arguments
\* (channels 1 and 3).
C21_OpenClEqualsCpu ==
  (OclReturned /\ CpuReturned) => ocl.out = pngenc.out

\* C21, the RGB half: for channels = 3 the two builders agree.
C21_RgbEqualsCpu ==
  (OclReturned /\ CpuReturned /\ ocl.channels = 3) => ocl.out = pngenc.out

\* both builders returned 1 on a padded greyscale image of several rows
C21_Witness ==
  /\ OclReturned
  /\ CpuReturned
  /\ ocl.channels = 1
  /\ ocl.height >= 2
  /\ ocl.src_width < ocl.out_width

\* ----- C22 .. C24
ZipClosedOk == zip.op = "close" /\ zip.ret = 1

\* the file is n local headers each followed by its data, n central
\* directory records and one end record, and they describe the n entries
\* added, in the order they were added
ZipLayout ==
  LET n == Len(zip.added)
      f == zip.file
  IN /\ Len(f) = (3 * n) + 1
     /\ \A i \in 1 .. n :
          LET a == zip.added[i]
              l == f[(2 * i) - 1]
              d == f[2 * i]
              c == f[(2 * n) + i]
          IN /\ l.kind = "local"
             /\ l.name = a.name
             /\ l.size = a.data_len
             /\ l.crc = Crc32(a.data, a.data_len)
             /\ d.kind = "data"
             /\ d.data = a.data
             /\ d.len = a.data_len
             /\ c.kind = "central"
             /\ c.name = l.name
             /\ c.crc = l.crc
             /\ c.comp_size = l.size
             /\ c.uncomp_size = l.size
             /\ c.offset = l.at
     /\ LET e == f[(3 * n) + 1]
            cd == f[(2 * n) + 1]
        IN /\ e.kind = "end"
           /\ e.count = n
           /\ e.offset = cd.at
           /\ e.cd_size = Sub32(TellU32(e.at), TellU32(cd.at))
           /\ (e.at[1] - cd.at[1]) < 65536

\* C22: after vs_zip_open, n successful vs_zip_add_file calls and a
\* successful vs_zip_close, the file is the n local headers and data blocks
\* in insertion order, n central directory records in the same order that
\* repeat the local header's CRC32, sizes and name and carry the byte offset
\* of that local header, and one end record with entry count n and the
\* directory's size and start offset.
C22_Layout == ZipClosedOk => ZipLayout

\* C22, for archives whose central directory starts below 4 GiB.
C22_LayoutBelow4GiB ==
  (ZipClosedOk /\ zip.file[Len(zip.file)].at[1] < 65536) => ZipLayout

\* a finalised archive of two different entries, one with data
C22_Witness ==
  /\ ZipClosedOk
  /\ Len(zip.added) >= 2
  /\ zip.added[1].name # zip.added[2].name
  /\ zip.added[2].data_len > 0

\* C23: a writer to which more than 65 535 entries were added is never
\* finalised: vs_zip_close returns 0 and the file holds no end record.
C23_NeverFinalised ==
  Len(zip.added) > ZipMaxEntries =>
    /\ zip.op = "close" => zip.ret = 0
    /\ \A k \in DOMAIN zip.file : zip.file[k].kind # "end"

\* vs_zip_close refused a healthy writer holding 65 536 entries
C23_Witness ==
  /\ zip.op = "close"
  /\ zip.ret = 0
  /\ zip.failed = 0
  /\ Len(zip.added) = ZipMaxEntries + 1

\* C24: a vs_zip_add_file call with a zero handle, a NULL name, NULL data
\* or a negative data_len returns 0 and leaves the entry count, the failed
\* flag, the entry array and the bytes of the file as they were.
C24_InvalidAddNoEffect ==
  [][(zip'.adds = zip.adds + 1 /\ ~zip'.argsValid) =>
       /\ zip'.ret = 0
       /\ zip'.count = zip.count
       /\ zip'.failed = zip.failed
       /\ zip'.capacity = zip.capacity
       /\ zip'.entries = zip.entries
       /\ zip'.file = zip.file
       /\ zip'.pos = zip.pos]_vars

\* an archive was finalised although one of the calls on its writer had
\* invalid arguments
C24_Witness ==
  /\ ZipClosedOk
  /\ zip.failed = 0
  /\ Len(zip.added) >= 1
  /\ zip.adds > Len(zip.added)

\* ----- C25
\* the chunks of a PNG file, as the format lays them out after the signature
RECURSIVE ChunksFrom(_, _)
ChunksFrom(b, off) ==
  IF off + 12 > Len(b) THEN <<>>
  ELSE LET len == ToInt32(read_u32_be(b, off))
       IN IF len < 0 \/ len > (Len(b) - off) - 12 THEN <<>>
          ELSE <<[type |-> Slice(b, off + 4, 4), data |-> Slice(b, off + 8, len)]>>
               \o ChunksFrom(b, (off + 12) + len)
RECURSIVE IdatOf(_)
IdatOf(cs) ==
  IF cs = <<>> THEN <<>>
  ELSE (IF Head(cs).type = TypeIDAT THEN Head(cs).data ELSE <<>>)
       \o IdatOf(Tail(cs))
RECURSIVE ChunkBytes(_)
ChunkBytes(cs) ==
  IF cs = <<>> THEN 0 ELSE (12 + Len(Head(cs).data)) + ChunkBytes(Tail(cs))
ClampLevel(level) == IF level < 0 THEN 0 ELSE IF level > 9 THEN 9 ELSE level
RecAccepted == rec.st = "ret" /\ rec.ret = 1

\* C25: an accepted PNG comes back as signature, IHDR with the 13 payload
\* bytes of the input's IHDR, one IDAT and IEND; the IDAT is the deflate
\* stream, at the clamped level, of the bytes the input's IDAT payloads
\* inflate to when joined in file order; and the output, recompressed again
\* at any level, is accepted and inflates to the same bytes.
C25_Recompress ==
  /\ RecAccepted =>
       LET cs == ChunksFrom(rec.out, 8)
           ins == ChunksFrom(rec.png, 8)
       IN /\ Slice(rec.out, 0, 8) = PngSig
          /\ Len(cs) = 3
          /\ Len(rec.out) = 8 + ChunkBytes(cs)
          /\ cs[1].type = TypeIHDR
          /\ cs[2].type = TypeIDAT
          /\ cs[3].type = TypeIEND
          /\ cs[3].data = <<>>
          /\ \E k \in DOMAIN ins :
                /\ ins[k].type = TypeIHDR
                /\ Len(ins[k].data) >= 13
                /\ cs[1].data = SubSeq(ins[k].data, 1, 13)
          /\ LET a == uncompress(cs[2].data, 0, TRUE)
                 b == uncompress(IdatOf(ins), 0, TRUE)
             IN /\ a.ret = 0
                /\ b.ret = 0
                /\ a.out = b.out
                /\ cs[2].data = compress2(b.out, ClampLevel(rec.level))
  /\ (rec.pass = 2 /\ rec.st = "ret" /\ ~rec.envFail) =>
       (rec.ret = 1 /\ rec.scan = rec.scan1)

\* a PNG with two IDAT chunks was recompressed, and its output recompressed
\* again into different bytes
C25_Witness ==
  /\ RecAccepted
  /\ rec.pass = 2
  /\ rec.out # rec.png
  /\ Len(SelectSeq(ChunksFrom(rec.png1, 8), LAMBDA c : c.type = TypeIDAT)) >= 2

\* ------------------------------------------------------ C26: claim ranges
\* the batch function returned 1 and nothing failed
PwCleanEnd ==
  /\ pwork.st = "returned"
  /\ pwork.ret = 1
  /\ ~pwork.failed
  /\ ~pwork.envFail

\* C26: in a pool of any kind, with any number of workers and any
\* interleaving, every range a claim returned is non-empty, lies in
\* [0, count) and has at most 4 indices (1 in the recompress pool); two
\* claims never share an index; next_index never exceeds count; and when
\* the pool ends without a failure every index of [0, count) was processed
\* exactly once.
C26_ClaimRanges ==
  /\ \A c \in pwork.claims :
       /\ 0 <= c[2] /\ c[2] < c[3] /\ c[3] <= pwork.count
       /\ c[3] - c[2] <= (IF pwork.kind = "recompress" THEN 1 ELSE 4)
  /\ \A c, d \in pwork.claims : c # d => (c[3] <= d[2] \/ d[3] <= c[2])
  /\ pwork.next_index <= pwork.count
  /\ PwCleanEnd =>
       \A i \in Indices : pwork.times[i] = (IF i < pwork.count THEN 1 ELSE 0)

\* two workers of a per-layer pool shared six layers as [0,4) and [4,6),
\* and the batch returned 1 without any failure
C26_Witness ==
  /\ PwCleanEnd
  /\ pwork.kind = "layer"
  /\ pwork.count = 6
  /\ \E t, u \in Workers :
       t # u /\ <<t, 0, 4>> \in pwork.claims /\ <<u, 4, 6>> \in pwork.claims

\* ------------------------------------------------------- C27: failed flag
\* what one step may do to the flag and under the flag: the flag is not
\* cleared; with the flag set no range is claimed and the cursor stays; an
\* index is processed only by a worker inside the range it holds; a worker
\* that asks for more work exits
FlagStep ==
  /\ pwork.failed => pwork'.failed
  /\ pwork.failed =>
       /\ pwork'.claims = pwork.claims
       /\ pwork'.next_index = pwork.next_index
       /\ \A i \in Indices :
            pwork'.times[i] # pwork.times[i] =>
              \E t \in Workers :
                /\ pwork.w[t].st = "loop"
                /\ pwork.w[t].idx = i
                /\ pwork.w[t].start <= i /\ i < pwork.w[t].end
                /\ <<t, pwork.w[t].start, pwork.w[t].end>> \in pwork.claims
       /\ \A t \in Workers :
            (pwork.w[t].st = "take" /\ pwork'.w[t].st # "take")
              => pwork'.w[t].st = "exit"

\* every handle the join loop used had been written by pthread_create
AllCreated == \A t \in Workers : t < pwork.threads => pwork.written[t]

\* C27: within one batch the failed flag is only set, never cleared; once
\* it is set no claim succeeds, each worker processes at most the rest of
\* the range it holds and then exits, and the batch returns 0.
C27_FailedFlag ==
  [][/\ FlagStep
     /\ (pwork'.failed /\ pwork'.st = "returned") => pwork'.ret = 0]_pwork

\* C27 for the calls whose thread creations all succeeded: the same, with
\* the return value of a batch that joined every worker it created
C27_FailedFlagAllCreated ==
  [][/\ FlagStep
     /\ (pwork'.failed /\ pwork'.st = "returned"
           /\ (pwork'.threads > 1 => AllCreated'))
          => pwork'.ret = 0]_pwork

\* a decode pool of two created workers on six layers: a layer of the
\* first range failed, the range [0,4) was still finished, layers 4 and 5
\* were never claimed, and the phase returned 0
C27_Witness ==
  /\ pwork.st = "returned"
  /\ pwork.kind = "decode"
  /\ pwork.count = 6
  /\ pwork.threads = 2
  /\ AllCreated
  /\ pwork.failed
  /\ pwork.ret = 0
  /\ \E t \in Workers : pwork.claims = {<<t, 0, 4>>}
  /\ \A i \in Indices : pwork.times[i] = (IF i < 4 THEN 1 ELSE 0)

\* ----------------------------------------------------- C28: phase barriers
ChunkLayers == {i \in Layers : InChunk(i, call.start, call.chunk_count)}

\* what the barriers promise at each point of the phased call: in phase 2
\* every layer of the chunk is decoded and has its area record; in phase 3
\* every layer of the chunk has its scanlines; when a chunk starts, every
\* layer of the chunks before it has its PNG
Barriers ==
  /\ (pc = "scan" \/ (pool.kind = "scanline" /\ pc # "returned")) =>
       \A i \in ChunkLayers :
          /\ pixels[i] # UNINIT
          /\ pixels[i] # NULLP => areas[i] = AreaOf(pixels[i])
  /\ (pool.kind = "compress" /\ pc # "returned") =>
       \A i \in ChunkLayers : slines[i] # UNINIT
  /\ (pool.kind = "decode" /\ pc # "returned") =>
       \A i \in Layers : i < call.start => items[i] # <<>>

\* C28: in the phased call, for every thread count and every pattern of
\* thread-creation success, no scanline build of a chunk starts before
\* every layer of the chunk is decoded and measured, no compression starts
\* before every layer's scanlines are built, and no chunk starts before the
\* chunk before it is complete.
C28_PhaseBarriers == call.fn = "phased" => Barriers

\* C28 for the calls in which no thread creation (or allocation) failed
C28_BarriersAllCreated ==
  (call.fn = "phased" /\ ~ghost.envFail) => Barriers

\* two workers compress a chunk of two layers whose scanlines the CPU pool
\* built
C28_Witness ==
  /\ call.fn = "phased"
  /\ ~ghost.envFail
  /\ pool.kind = "compress"
  /\ call.chunk_count = 2
  /\ call.chunk_gpu_ok = 0
  /\ LiveCount(wk) = 2
  /\ \E t \in Threads : wk[t].st = "hold"

\* ---------------------------------------------------------- C29: chunking
Least(S) == CHOOSE x \in S : \A y \in S : x <= y
AtLeastOne(n) == IF n < 1 THEN 1 ELSE n

\* the chunks handed on are consecutive from 0, each of 1 .. max_chunk
\* layers, and a call that got through its loop covered [0, count)
ChunksCover ==
  /\ \A k \in 1 .. Len(chk.chunks) :
       /\ chk.chunks[k][1] =
            (IF k = 1 THEN 0 ELSE chk.chunks[k - 1][1] + chk.chunks[k - 1][2])
       /\ 1 <= chk.chunks[k][2]
       /\ chk.chunks[k][2] <= chk.max_chunk
  /\ (chk.st = "returned" /\ chk.ret = 1) =>
       /\ Len(chk.chunks) > 0
       /\ chk.chunks[Len(chk.chunks)][1] + chk.chunks[Len(chk.chunks)][2]
            = chk.count

\* the mega-batch kernel never got more than 8 layers
MegaWithinCap == \A n \in chk.mega : n <= 8

\* max_chunk as the claim words it: the least of count, 8 GiB / per-layer
\* memory, (vram - 512 MiB) / per-layer VRAM when GPU batch is requested
\* and vram is known, and min(max_concurrent_layers, 8) when the CUDA
\* backend is active; at least 1
StatedMaxChunk ==
  LET host == QuotBelow(HostBudget, per_layer_mem(chk.dims), chk.count)
      known == chk.use_gpu_batch # 0 /\ ~MemLe(chk.vram, <<0, 0>>)
      vfit == IF ~known THEN chk.count
              ELSE IF MemLe(chk.vram, <<VramReserve, 0>>) THEN 0
              ELSE QuotBelow(<<chk.vram[1] - VramReserve, chk.vram[2]>>,
                             vram_per_layer(chk.dims), chk.count)
      cuda == IF chk.active = 1 /\ chk.backend = 3
                THEN Least({chk.max_layers, 8}) ELSE chk.count
  IN AtLeastOne(Least({chk.count, host, vfit, cuda}))

\* max_chunk with the three conditions the code adds: the VRAM clamp needs
\* more than 512 MiB of device memory, the CUDA cap needs GPU batch to be
\* requested, and an answer outside 1 .. 8 counts as 8
AmendedMaxChunk ==
  LET host == QuotBelow(HostBudget, per_layer_mem(chk.dims), chk.count)
      known == chk.use_gpu_batch # 0 /\ ~MemLe(chk.vram, <<VramReserve, 0>>)
      vfit == IF ~known THEN chk.count
              ELSE QuotBelow(<<chk.vram[1] - VramReserve, chk.vram[2]>>,
                             vram_per_layer(chk.dims), chk.count)
      cuda == IF chk.use_gpu_batch # 0 /\ chk.active = 1 /\ chk.backend = 3
                THEN (IF chk.max_layers \in 1 .. 8 THEN chk.max_layers ELSE 8)
                ELSE chk.count
  IN AtLeastOne(Least({chk.count, host, vfit, cuda}))

\* C29, as stated: max_chunk is the least of count, the host-memory fit,
\* the VRAM fit when GPU batch is requested and VRAM is known, and
\* min(max_concurrent_layers, 8) when the CUDA backend is active, but at
\* least 1; the chunks are consecutive, cover [0, count), hold 1 ..
\* max_chunk layers each, and the mega-batch kernel gets at most 8 layers.
C29_ChunkingAsStated ==
  chk.st \in {"loop", "returned"} =>
    /\ chk.max_chunk = StatedMaxChunk
    /\ ChunksCover
    /\ MegaWithinCap

\* C29, amended: the same with the VRAM fit applied only above 512 MiB of
\* device memory, the CUDA cap applied only when GPU batch is requested,
\* and the cap being max_concurrent_layers when that is 1 .. 8 and 8
\* otherwise.
C29_Chunking ==
  chk.st \in {"loop", "returned"} =>
    /\ chk.max_chunk = AmendedMaxChunk
    /\ ChunksCover
    /\ MegaWithinCap

\* twelve layers with CUDA active and a library that allows three at a
\* time: four chunks of three, each handed to the mega-batch kernel
C29_Witness ==
  /\ chk.st = "returned"
  /\ chk.ret = 1
  /\ chk.count = 12
  /\ chk.max_layers = 3
  /\ chk.max_chunk = 3
  /\ chk.chunks = <<<<0, 3>>, <<3, 3>>, <<6, 3>>, <<9, 3>>>>
  /\ chk.mega = {3}

\* --------------------------------------------- C30: runtime initialisation
\* C30: when several workers call the OpenCL builder for the first time at
\* once, the runtime lock is initialised exactly once and never while a
\* worker holds it, and the context, queue, program and kernel are created
\* at most once.
C30_InitThreadSafe ==
  /\ clrt.inits <= 1
  /\ (\E t \in Callers : clrt.at[t] \notin {"off", "idle", "check",
                                            "mutexinit"})
       => clrt.inits = 1
  /\ ~clrt.busyInit
  /\ clrt.created <= 1

\* C30 for one worker calling alone: one initialisation of the lock, on a
\* free lock, and one creation
C30_SingleCaller ==
  (\E t \in Callers : \A u \in Callers : u # t => clrt.at[u] = "off") =>
    /\ clrt.inits <= 1
    /\ ~clrt.busyInit
    /\ clrt.created <= 1

\* a worker calling alone got through initialisation and the kernel
C30_Witness ==
  /\ \E t \in Callers :
       /\ clrt.at[t] = "done"
       /\ clrt.ret[t] = 1
       /\ \A u \in Callers : u # t => clrt.at[u] = "off"
  /\ clrt.inits = 1
  /\ clrt.created = 1

\* ---------------------------------------------------------------- C31
\* the backend that built scanlines of the call: the selected GPU back end
\* when a kernel built any layer, the CPU otherwise
BuiltBy == IF ghost.gbuilt > 0 THEN g_gpu_backend ELSE 0

\* C31: after a successful phased call the backend readout is the code of
\* the backend that built the scanlines (0 when every layer was built on the
\* CPU, else the selected GPU back end) and the fallback readout is the
\* number of layers that attempted the GPU and were built on the CPU.
C31_LastBackend ==
  (Returned("phased") /\ ret = 1)
    => /\ (ghost.gfell = 0 \/ ghost.gbuilt = 0 => g_last.backend = BuiltBy)
       /\ g_last.backend \in {0, BuiltBy}
       /\ g_last.gpu_fallbacks = ghost.gfell

\* C31, the CUDA case without fallbacks: when CUDA is the selected back end
\* and no layer that attempted the GPU was built on the CPU, the readouts
\* are right: 3 with kernel-built layers, 0 without, and 0 fallbacks.
C31_LastBackendCuda ==
  (Returned("phased") /\ ret = 1 /\ g_gpu_backend = 3 /\ ghost.gfell = 0)
    => /\ g_last.backend = BuiltBy
       /\ g_last.gpu_fallbacks = 0

C31_Witness ==
  /\ Returned("phased")
  /\ ret = 1
  /\ g_gpu_backend = 3
  /\ ghost.gfell = 0
  /\ ghost.gbuilt = NumLayers
  /\ g_last.backend = 3

\* ---------------------------------------------------------------- C32
\* the call has returned and every thread it created has left its worker
PwDone ==
  /\ pwork.st = "returned"
  /\ \A t \in Workers : pwork.written[t] => pwork.w[t].st = "exit"

\* a pthread_create of the pool failed
CreationFailed ==
  /\ pwork.st \in {"join", "returned"}
  /\ pwork.threads >= 2
  /\ ~AllCreated

\* every successful claim moves the cursor forward, and there are at most
\* ceil(count / claim) of them
ClaimsBounded ==
  /\ [][pwork'.claims # pwork.claims
          => pwork'.next_index > pwork.next_index]_pwork
  /\ [](Cardinality(pwork.claims) * ClaimSize(pwork.kind)
          <= pwork.count + ClaimSize(pwork.kind) - 1)

\* C32: under fair scheduling every batch call terminates: each successful
\* claim strictly advances the cursor, there are at most ceil(count / 4)
\* successful claims (count in the recompress pool), every worker
\* eventually exits and the call returns.
C32_Terminates == ClaimsBounded /\ <>PwDone

\* C32 when every thread creation succeeds (or the pool is not used): the
\* call returns and every worker has exited.
C32_TerminatesAllCreated == ClaimsBounded /\ <>(PwDone \/ CreationFailed)

\* a per-layer pool of three created workers on six layers has returned 1
\* after two claims, with every worker out of its loop
C32_Witness ==
  /\ PwDone
  /\ pwork.kind = "layer"
  /\ pwork.threads = MaxWorkers
  /\ AllCreated
  /\ pwork.count = MaxCount
  /\ Cardinality(pwork.claims) = 2
  /\ pwork.ret = 1

\* ---------------------------------------------------------------- C33
\* the layers of the per-layer batch handed to _process_one_layer so far:
\* the serial loop's index, or what was claimed less what is still held
HeldLayers(t) == IF wk[t].st = "hold" THEN wk[t].e - wk[t].s ELSE 0
RECURSIVE SumHeld(_)
SumHeld(T) ==
  IF T = {} THEN 0
  ELSE LET t == CHOOSE x \in T : TRUE IN HeldLayers(t) + SumHeld(T \ {t})
LayersProcessed ==
  IF Min(call.threads, NumLayers) <= 1 THEN pool.si
  ELSE pool.next_index - SumHeld(Threads)

\* C33: during and after a per-layer batch, between the critical sections
\* of the batch mutex, gpu_attempts = gpu_successes + gpu_fallbacks,
\* gpu_attempts is at most the number of layers processed so far, which is
\* at most count, and used_gpu is non-zero only if gpu_successes > 0.
C33_GpuCounters ==
  call.fn = "layer"
    => /\ work.gpu_attempts = work.gpu_successes + work.gpu_fallbacks
       /\ work.gpu_attempts <= LayersProcessed
       /\ LayersProcessed <= NumLayers
       /\ (work.used_gpu # 0 => work.gpu_successes > 0)

\* a per-layer batch of two layers returned 1 after one kernel success and
\* one fallback to the CPU builder
C33_Witness ==
  /\ Returned("layer")
  /\ ret = 1
  /\ work.gpu_attempts = 2
  /\ work.gpu_successes = 1
  /\ work.gpu_fallbacks = 1
  /\ work.used_gpu # 0

\* ---------------------------------------------------------------- C34
\* C34: after any sequence of per-layer batches with different thread
\* counts and analytics switches, the thread statistics readout reads only
\* entries of the allocated array: while the array exists the last-batch
\* thread count is at most its capacity, and so is the number of entries
\* the last readout read.
C34_StatsInBounds ==
  ana.cap > 0 => (ana.count <= ana.cap /\ ana.n <= ana.cap)

\* C34 right after a batch that ran with analytics on and stored its thread
\* count: the array, if there is one, has exactly that many entries.
C34_StatsAfterAnalysedBatch ==
  ana.fresh => (ana.cap = 0 \/ ana.count = ana.cap)

\* a batch of three threads with analytics on has stored its count and
\* the array has three entries
C34_Witness ==
  /\ ana.fresh
  /\ ana.cap = MaxStatThreads
  /\ ana.count = MaxStatThreads

\* ---------------------------------------------------------------- C35
ZlActive == {t \in ZlCallers : zl.at[t] # "off"}

\* C35: when the deflate provider can be loaded, no worker of a recompress
\* batch with two or more workers returns 0 because it found the provider
\* unavailable.
C35_ProviderAvailable ==
  (zl.loadable /\ Cardinality(ZlActive) >= 2)
    => \A t \in ZlCallers : ~zl.unavailable[t]

\* C35 for one worker, or once an earlier call has finished the load: a
\* loadable provider is never found unavailable.
C35_ProviderAvailableAlone ==
  (zl.loadable /\ (Cardinality(ZlActive) <= 1 \/ zl.pre))
    => \A t \in ZlCallers : ~zl.unavailable[t]

\* a worker on its own made the first load of a loadable provider and
\* recompressed its item
C35_Witness ==
  /\ zl.loadable
  /\ Cardinality(ZlActive) = 1
  /\ zl.loads = 1
  /\ \A t \in ZlActive : zl.ret[t] = 1

\* ---------------------------------------------------------------- C36
\* 0 <= off, 0 < len and off + len <= input_blob_len over the integers
InBlob(off, len, input_blob_len) ==
  /\ 0 <= off
  /\ 0 < len
  /\ len <= input_blob_len - off

\* C36: an item's bytes are read only if 0 <= offset, 0 < length and
\* offset + length <= input_blob_len as mathematical integers; a sum that
\* wraps in 32 bits is rejected.
C36_ItemInBlob ==
  rng.st = "read" => InBlob(rng.off, rng.len, rng.input_blob_len)

\* C36 for the items whose offset + length fits an int32_t
C36_ItemInBlobNoOverflow ==
  (rng.st = "read" /\ SumFits(rng.off, rng.len))
    => InBlob(rng.off, rng.len, rng.input_blob_len)

\* an item that ends exactly at the end of the blob is read
C36_Witness ==
  /\ rng.st = "read"
  /\ rng.off = 5
  /\ rng.len = 5
  /\ rng.input_blob_len = 10

\* ---------------------------------------------------------------- C37
AddStep == zip'.op = "add" /\ zip'.adds = zip.adds + 1
CloseStep == zip.st = "open" /\ zip'.op = "close"

\* C37: a failure of vs_zip_add_file past its argument test is sticky: the
\* failing add sets the flag, nothing clears it, every later add returns 0
\* and writes nothing, and close returns 0 without writing a central
\* directory or an end record.
C37_StickyFailure ==
  [][/\ (AddStep /\ zip'.ret = 0 /\ zip'.argsValid) => zip'.failed = 1
     /\ zip.failed = 1 => zip'.failed = 1
     /\ (zip.failed = 1 /\ (AddStep \/ CloseStep))
          => (zip'.ret = 0 /\ zip'.file = zip.file /\ zip'.pos = zip.pos
              /\ zip'.count = zip.count)]_zip

\* two adds after the first failed one, the writer closed: 0 every time
C37_Witness ==
  /\ zip.failed = 1
  /\ zip.op = "close"
  /\ zip.ret = 0
  /\ zip.adds = MaxAdds
  /\ zip.added = <<>>
  /\ zip.file # <<>>

\* ---------------------------------------------------------------- C38
\* the offsets recorded so far are the byte positions they stand for: in a
\* healthy open writer entry i carries the position of its local header; in
\* a finalised archive central record i does, and the end record carries
\* the position of the first central record.  A recorded offset is a
\* uint32_t, so a position of 2^32 or more is never equal to one.
OffsetsTrue ==
  LET f == zip.file
  IN /\ (zip.st = "open" /\ zip.failed = 0) =>
          \A i \in DOMAIN zip.entries :
            zip.entries[i].local_header_offset = f[(2 * i) - 1].at
     /\ ZipClosedOk =>
          LET n == Len(zip.added)
          IN /\ \A i \in 1 .. n : f[(2 * n) + i].offset = f[(2 * i) - 1].at
             /\ f[Len(f)].offset = f[(2 * n) + 1].at

\* C38: every offset the writer records (local header offsets, the start of
\* the central directory) is the true byte position; a writer whose
\* position passes 2^32 - 1 fails instead of recording the position
\* modulo 2^32.
C38_TrueOffsets == OffsetsTrue

\* C38 while the file position is below 4 GiB
C38_TrueOffsetsBelow4GiB == zip.pos[1] < 65536 => OffsetsTrue

\* an open, healthy writer holding two entries, the second one's header
\* behind the first one's data
C38_Witness ==
  /\ zip.st = "open"
  /\ zip.failed = 0
  /\ Len(zip.entries) = 2
  /\ zip.entries[1].comp_size > 0
  /\ zip.entries[2].local_header_offset # zip.entries[1].local_header_offset
  /\ zip.pos[1] < 65536

\* ---------------------------------------------------------------- C39
\* no kernel, mega-batch or single-layer, was called by the call
NoGpuPath ==
  /\ ghost.kcalls = 0
  /\ ghost.boks = 0
  /\ ghost.bfails = 0
  /\ ghost.gbuilt = 0
  /\ ghost.gfell = 0

\* what a call without a GPU path owes its caller: for well-formed layers 1
\* and the pure-CPU outputs, layer i decoded with layer_index_base + i; and
\* 0 only for a faulty layer or a failure of the environment
CpuResult ==
  /\ ret = 1 => (NoFaults /\ outs = CpuOutputs)
  /\ ret = 0 => ((~NoFaults \/ ghost.envFail) /\ outs = NoOuts)
  /\ ret \in {0, 1}

\* C39: with no GPU path taken the per-layer and the phased call are
\* equivalent, for every input, thread count and chunk size: each returns 1
\* exactly with the outputs of the pure-CPU pipeline on layers indexed
\* layer_index_base + i, whatever the chunks, and 0 otherwise.
C39_PhasedEquivalent ==
  (pc = "returned" /\ call.fn \in {"layer", "phased"} /\ NoGpuPath)
    => CpuResult

\* C39 when no thread creation fails: the two calls agree, and without any
\* failure of the environment they succeed exactly on the well-formed
\* inputs.
C39_PhasedEquivalentAllCreated ==
  (pc = "returned" /\ call.fn \in {"layer", "phased"} /\ NoGpuPath
     /\ ~ghost.createFail)
    => /\ CpuResult
       /\ ~ghost.envFail => (ret = 1 <=> NoFaults)

\* a phased call of two threads on two chunks of one layer each returned
\* the pure-CPU outputs
C39_Witness ==
  /\ Returned("phased")
  /\ NoGpuPath
  /\ ~ghost.envFail
  /\ call.threads = MaxThreads
  /\ call.max_chunk = 1
  /\ ret = 1
  /\ outs = CpuOutputs

\* ---------------------------------------------------------------- C40
\* the PNG payload and the area count of a layer processed on its own by
\* the CPU pipeline, as a function of the layer and the geometry alone
LayerPng(g, layer) ==
  LET px == [j \in 0 .. (g.src_width - 1) |->
               IF j \in DOMAIN layer THEN layer[j] ELSE 0]
      sl == CpuRow(g, px)
  IN <<Len(sl)>> \o sl
LayerAreaCount(layer) == Cardinality({j \in DOMAIN layer : layer[j] # 0})

============================================================================
